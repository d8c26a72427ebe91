-------------------------- MODULE DispatcherProofs --------------------------
(***************************************************************************)
(* Proofs about Dispatcher.tla, for any number of threads, messages and    *)
(* timeouts, and whatever the program and its handlers call.               *)
(***************************************************************************)
EXTENDS Dispatcher, TLAPS

(***************************************************************************)
(* The inductive invariant.                                                *)
(***************************************************************************)

\* No loop knows of more timeouts than there are, and none remembers more
\* than were reported.
CountInv ==
  /\ reported_timeouts <= timeouts /\ \A t \in Threads : count[t] <= timeouts
  /\ NoTimeoutSkipped
  /\ \A t \in Threads : pc[t] = "reported" => count[t] <= reports

\* While one loop runs at a time, and no hook raised, what was reported is
\* what is remembered, or about to be.
OneLoopInv ==
  ~disturbed =>
    /\ \A t, u \in Threads : InLoop(t) /\ InLoop(u) => t = u
    /\ \A t \in Threads : pc[t] \in {"reporting", "reported"} => reported_timeouts <= count[t]
    /\ \A t \in Threads : pc[t] = "reported" => reports = count[t]
    /\ (\A t \in Threads : pc[t] # "reported") => reports = reported_timeouts

\* In a handler there is a message.
HandlerPcs == {"handler", "rescue", "auto_release"}
HandlerInv == \A t \in Threads : pc[t] \in HandlerPcs => current[t] # NoMessage

\* A thread has messages of a batch left only inside batch.each, in #dispatch
\* or in a method its handler called; at the end of #run only if it raised.
DispatchPcs == {"each", "handler", "rescue", "auto_release", "end_dispatch"}

BatchInv ==
  \A t \in Threads : batch[t] # <<>> =>
    \/ pc[t] \in DispatchPcs
    \/ pc[t] \in CallPcs /\ current[t] # NoMessage
    \/ pc[t] = "ensure" /\ raised[t]

\* A thread is in #stop or #close only at their lines.
StopPcs == {"stop", "join", "joining", "native_close"}
CallInv == \A t \in Threads : call[t] # "none" => pc[t] \in StopPcs

DispatcherInv == TypeOK /\ CountInv /\ OneLoopInv /\ HandlerInv /\ BatchInv /\ CallInv
-----------------------------------------------------------------------------
(***************************************************************************)
(* Which steps change which variable.                                      *)
(***************************************************************************)
USE DEF Next, Step, Program, HandlerEnds, RunBegin, OpenWakeup, While, WaitReadable, DrainClosed, Drain,
  Each, ReportTimeouts, ReportHooks, ReportRaises, ReportDone, Ensure, Rescue, AutoRelease, EndDispatch,
  AssignThread, StopRunning, JoinNobody, JoinThread, Joined, JoinRaises, CloseNative, Spawn, CallRun,
  CallStart, CallStop, CallClose, HandlerReturns, HandlerRaises, HandlerRetains, HandlerReleases,
  Arrive, ReleaseHeld, CollectGarbage, CountTimeout, vars, instanceVars, nativeVars, localVars,
  historyVars, NativeCloseClient, AfterStop, CallDone, AfterDispatch, Raise

\* The instance variables of the Ruby object.
LEMMA InstanceFrame ==
  Next => /\ UNCHANGED reported_timeouts \/ \E t \in Threads : ReportDone(t)
          /\ UNCHANGED thread \/ \E t \in Threads : AssignThread(t)
BY ZenonT(60)

\* The counters that report_timeouts compares, and its local variable.
LEMMA CountFrame ==
  Next => /\ UNCHANGED timeouts \/ CountTimeout
          /\ UNCHANGED count \/ \E t \in Threads : ReportTimeouts(t) \/ ReportDone(t) \/ ReportRaises(t)
          /\ UNCHANGED reports \/ \E t \in Threads : ReportHooks(t) \/ ReportRaises(t)
          /\ UNCHANGED disturbed \/ \E t \in Threads : RunBegin(t) \/ ReportRaises(t)
BY ZenonT(60)

\* The messages a thread has drained.
LEMMA BatchFrame ==
  Next => /\ UNCHANGED batch \/ \E t \in Threads : Drain(t) \/ Each(t) \/ Ensure(t)
          /\ UNCHANGED current \/ \E t \in Threads : Each(t) \/ AutoRelease(t)
BY ZenonT(60)

\* __drain: a batch off the front of the queue.
LEMMA DrainTypes ==
  ASSUME TypeOK, NEW t \in Threads, Drain(t)
  PROVE  queue' \in Seq(Messages) /\ batch' \in [Threads -> Seq(Messages)]
<1> DEFINE n == IF Len(queue) < BatchMax THEN Len(queue) ELSE BatchMax
<1>1. queue \in Seq(Messages) /\ batch \in [Threads -> Seq(Messages)] /\ BatchMax \in Nat
  BY DispatcherAssumption DEF TypeOK
<1>2. n \in 0 .. Len(queue)
  BY <1>1
<1>3. SubSeq(queue, 1, n) \in Seq(Messages) /\ SubSeq(queue, n + 1, Len(queue)) \in Seq(Messages)
  <2> HIDE DEF n
  <2> QED
    BY <1>1, <1>2
<1>4. batch' = [batch EXCEPT ![t] = SubSeq(queue, 1, n)] /\ queue' = SubSeq(queue, n + 1, Len(queue))
  BY DEF Drain
<1> QED
  BY <1>1, <1>3, <1>4

\* The queue of the native client.
LEMMA QueueFrame ==
  Next => UNCHANGED queue \/ queue' = <<>> \/ (\E t \in Threads : Drain(t)) \/ \E m \in Messages : Arrive(m)
BY ZenonT(60)

\* The calls of #stop and #close.
LEMMA CallFrame ==
  Next => \/ UNCHANGED call
          \/ \E t \in Threads : CallStop(t) \/ CallClose(t) \/ JoinNobody(t) \/ Joined(t) \/ JoinRaises(t)
                                \/ CloseNative(t) \/ AssignThread(t)
BY ZenonT(60)

\* The thread that #stop waits for, or that #start just created.
LEMMA JoiningFrame ==
  Next => \/ UNCHANGED joining
          \/ \E t \in Threads : JoinThread(t) \/ JoinNobody(t) \/ Joined(t) \/ JoinRaises(t)
                                \/ CloseNative(t) \/ AssignThread(t) \/ \E w \in Workers : Spawn(t, w)
BY ZenonT(60)

\* The exceptions that leave #run.
LEMMA RaisedFrame ==
  Next => \/ UNCHANGED raised
          \/ \E t \in Threads : OpenWakeup(t) \/ DrainClosed(t) \/ ReportRaises(t) \/ Rescue(t) \/ Ensure(t)
BY ZenonT(60)

\* The flags are assigned constants only.
LEMMA FlagFrame ==
  Next => /\ UNCHANGED running \/ running' = TRUE \/ running' = FALSE
          /\ UNCHANGED dispatching \/ dispatching' = TRUE \/ dispatching' = FALSE
          /\ UNCHANGED close_after_dispatch \/ close_after_dispatch' = TRUE \/ close_after_dispatch' = FALSE
          /\ UNCHANGED closed \/ closed' = TRUE
<1>1. Next => UNCHANGED running \/ running' = TRUE \/ running' = FALSE
  BY ZenonT(60)
<1>2. Next => UNCHANGED dispatching \/ dispatching' = TRUE \/ dispatching' = FALSE
  BY ZenonT(60)
<1>3. Next => UNCHANGED close_after_dispatch \/ close_after_dispatch' = TRUE \/ close_after_dispatch' = FALSE
  BY ZenonT(60)
<1>4. Next => UNCHANGED closed \/ closed' = TRUE
  BY ZenonT(60)
<1> HIDE DEF Next
<1> QED
  BY <1>1, <1>2, <1>3, <1>4, Zenon

\* The states of the messages change by SetStatus, and never back to "unsent".
LEMMA StatusFrame ==
  Next => \/ UNCHANGED status
          \/ \E S : \E x \in {"queued", "drained", "held", "released", "abandoned"} : SetStatus(S, x)
BY ZenonT(60)

\* Only the end of #run abandons messages.
LEMMA AbandonFrame ==
  Next => \/ UNCHANGED status
          \/ \E t \in Threads : Ensure(t)
          \/ \E S : \E x \in {"queued", "drained", "held", "released"} : SetStatus(S, x)
BY ZenonT(60)

HIDE DEF Next, Step, Program, HandlerEnds, RunBegin, OpenWakeup, While, WaitReadable, DrainClosed, Drain,
  Each, ReportTimeouts, ReportHooks, ReportRaises, ReportDone, Ensure, Rescue, AutoRelease, EndDispatch,
  AssignThread, StopRunning, JoinNobody, JoinThread, Joined, JoinRaises, CloseNative, Spawn, CallRun,
  CallStart, CallStop, CallClose, HandlerReturns, HandlerRaises, HandlerRetains, HandlerReleases,
  Arrive, ReleaseHeld, CollectGarbage, CountTimeout, vars, instanceVars, nativeVars, localVars,
  historyVars, NativeCloseClient, AfterStop, CallDone, AfterDispatch, Raise

\* A step moves one thread from one line to the next; Thread.new also starts
\* a worker.
Moves(t, l) == pc' = [pc EXCEPT ![t] = l]

Edge(t, l) ==
  \/ pc[t] = "idle" /\ l \in {"run", "spawn", "stop"}
  \/ RunBegin(t) /\ pc[t] = "run" /\ l = "open"
  \/ pc[t] = "open" /\ l \in {"while", "ensure"}
  \/ pc[t] = "while" /\ l \in {"wait", "ensure"}
  \/ pc[t] = "wait" /\ l = "drain"
  \/ Drain(t) /\ pc[t] = "drain" /\ l = "each"
  \/ pc[t] = "drain" /\ l = "ensure"
  \/ Each(t) /\ pc[t] = "each" /\ l \in {"handler", "report"}
  \/ ReportTimeouts(t) /\ pc[t] = "report" /\ l = "reporting"
  \/ ReportHooks(t) /\ pc[t] = "reporting" /\ l = "reported"
  \/ ReportRaises(t) /\ pc[t] = "reporting" /\ l = "ensure"
  \/ ReportDone(t) /\ pc[t] = "reported" /\ l = "while"
  \/ Ensure(t) /\ pc[t] = "ensure" /\ l \in {"idle", "dead"}
  \/ pc[t] = "handler" /\ l \in {"auto_release", "rescue", "spawn", "stop"}
  \/ pc[t] = "rescue" /\ l = "auto_release"
  \/ AutoRelease(t) /\ pc[t] = "auto_release" /\ l = "end_dispatch"
  \/ pc[t] = "end_dispatch" /\ (l = "each" \/ (l = "ensure" /\ raised[t]))
  \/ pc[t] = "stop" /\ l = "join"
  \/ pc[t] = "join" /\ l \in {"joining", "native_close"}
  \/ pc[t] = "joining" /\ l = "native_close"
  \/ /\ pc[t] \in {"assign", "join", "joining", "native_close"}
     /\ call' = [call EXCEPT ![t] = "none"]
     /\ \/ l = "idle" /\ current[t] = NoMessage
        \/ l \in {"handler", "rescue"} /\ current[t] # NoMessage

\* Each step takes one edge of this graph.
LEMMA EdgeFrame ==
  ASSUME Next
  PROVE  \/ UNCHANGED pc
         \/ \E t \in Threads : \E l : Moves(t, l) /\ Edge(t, l)
         \/ \E t \in Threads : \E w \in Workers : Spawn(t, w)
<1>1. ASSUME NEW t \in Threads, RunBegin(t) \/ OpenWakeup(t) \/ While(t) \/ WaitReadable(t)
      PROVE  UNCHANGED pc \/ \E l : Moves(t, l) /\ Edge(t, l)
  BY <1>1, Zenon DEF RunBegin, OpenWakeup, While, WaitReadable, Raise, Goto, Moves, Edge
<1>2. ASSUME NEW t \in Threads, DrainClosed(t) \/ Drain(t) \/ Each(t)
      PROVE  UNCHANGED pc \/ \E l : Moves(t, l) /\ Edge(t, l)
  BY <1>2, Zenon DEF DrainClosed, Drain, Each, Raise, Goto, Moves, Edge
<1>3. ASSUME NEW t \in Threads, ReportTimeouts(t) \/ ReportHooks(t) \/ ReportDone(t)
      PROVE  UNCHANGED pc \/ \E l : Moves(t, l) /\ Edge(t, l)
  BY <1>3, Zenon DEF ReportTimeouts, ReportHooks, ReportDone, Goto, Moves, Edge
<1>4. ASSUME NEW t \in Threads, ReportRaises(t) \/ Ensure(t) \/ Rescue(t)
      PROVE  UNCHANGED pc \/ \E l : Moves(t, l) /\ Edge(t, l)
  BY <1>4, Zenon DEF ReportRaises, Ensure, Rescue, Raise, Goto, Moves, Edge
<1>5. ASSUME NEW t \in Threads, AutoRelease(t) \/ EndDispatch(t)
      PROVE  UNCHANGED pc \/ \E l : Moves(t, l) /\ Edge(t, l)
  <2>1. AutoRelease(t) => Moves(t, "end_dispatch") /\ pc[t] = "auto_release"
    BY DEF AutoRelease, Goto, Moves
  <2>2. EndDispatch(t) /\ raised[t] => Moves(t, "ensure") /\ pc[t] = "end_dispatch"
    BY DEF EndDispatch, AfterDispatch, Goto, Moves
  <2>3. EndDispatch(t) /\ ~raised[t] => Moves(t, "each") /\ pc[t] = "end_dispatch"
    BY DEF EndDispatch, AfterDispatch, Goto, Moves
  <2>4. CASE AutoRelease(t)
    BY <2>1, <2>4 DEF Edge
  <2>5. CASE EndDispatch(t)
    <3>1. raised[t] => Edge(t, "ensure")
      BY <2>2, <2>5 DEF Edge
    <3>0. pc[t] = "end_dispatch"
      BY <2>5 DEF EndDispatch
    <3>2. Edge(t, "each")
      BY <3>0 DEF Edge
    <3>3. CASE raised[t]
      <4>1. Moves(t, "ensure") /\ Edge(t, "ensure")
        BY <2>2, <2>5, <3>1, <3>3
      <4> QED
        BY <4>1, Zenon
    <3>4. CASE ~raised[t]
      <4>1. Moves(t, "each") /\ Edge(t, "each")
        BY <2>3, <2>5, <3>2, <3>4
      <4> QED
        BY <4>1, Zenon
    <3> QED
      BY <3>3, <3>4
  <2> QED
    BY <1>5, <2>4, <2>5
<1>6. ASSUME NEW t \in Threads, AssignThread(t) \/ JoinRaises(t) \/ CloseNative(t)
      PROVE  UNCHANGED pc \/ \E l : Moves(t, l) /\ Edge(t, l)
  BY <1>6, Zenon DEF AssignThread, JoinRaises, CloseNative, CallDone, Goto, Moves, Edge
<1>7. ASSUME NEW t \in Threads, StopRunning(t) \/ JoinThread(t)
      PROVE  UNCHANGED pc \/ \E l : Moves(t, l) /\ Edge(t, l)
  BY <1>7, Zenon DEF StopRunning, JoinThread, Goto, Moves, Edge
<1>8. ASSUME NEW t \in Threads, JoinNobody(t) \/ Joined(t)
      PROVE  UNCHANGED pc \/ \E l : Moves(t, l) /\ Edge(t, l)
  BY <1>8, Zenon DEF JoinNobody, Joined, AfterStop, CallDone, Goto, Moves, Edge
<1>9. ASSUME NEW t \in Threads, CallRun(t) \/ CallStart(t) \/ CallStop(t) \/ CallClose(t)
      PROVE  UNCHANGED pc \/ \E l : Moves(t, l) /\ Edge(t, l)
  BY <1>9, Zenon DEF CallRun, CallStart, CallStop, CallClose, Ready, Goto, Moves, Edge
<1>10. ASSUME NEW t \in Threads, HandlerReturns(t) \/ HandlerRaises(t) \/ HandlerRetains(t) \/ HandlerReleases(t)
      PROVE  UNCHANGED pc \/ \E l : Moves(t, l) /\ Edge(t, l)
  BY <1>10, Zenon DEF HandlerReturns, HandlerRaises, HandlerRetains, HandlerReleases, localVars, Goto, Moves, Edge
<1>11. (\E m \in Messages : Arrive(m) \/ ReleaseHeld(m) \/ CollectGarbage(m)) \/ CountTimeout => UNCHANGED pc
  BY Zenon DEF Arrive, ReleaseHeld, CollectGarbage, CountTimeout
<1> QED
  BY <1>1, <1>2, <1>3, <1>4, <1>5, <1>6, <1>7, <1>8, <1>9, <1>10, <1>11, Zenon DEF Next, Step, Program, HandlerEnds
-----------------------------------------------------------------------------
(***************************************************************************)
(* Every step keeps the invariant.                                         *)
(***************************************************************************)
Pcs == RunPcs \cup CallPcs \cup {"idle", "unborn", "dead"}

\* What a move changes: the line of one thread.
LEMMA MoveUpdate ==
  ASSUME TypeOK, NEW t \in Threads, NEW l, Moves(t, l)
  PROVE  pc'[t] = l /\ \A u \in Threads : u # t => pc'[u] = pc[u]
BY DEF Moves, TypeOK

\* Thread.new moves the thread that calls it and the worker.
LEMMA SpawnUpdate ==
  ASSUME TypeOK, NEW t \in Threads, NEW w \in Workers, Spawn(t, w)
  PROVE  /\ w \in Threads /\ t # w /\ pc[t] = "spawn" /\ pc'[t] = "assign" /\ pc[w] = "unborn" /\ pc'[w] = "run"
         /\ \A u \in Threads : u # t /\ u # w => pc'[u] = pc[u]
         /\ UNCHANGED <<instanceVars, nativeVars, batch, current, call, raised, count, historyVars>>
<1>1. /\ pc[t] = "spawn" /\ pc[w] = "unborn" /\ w \in Threads
      /\ pc' = [pc EXCEPT ![t] = "assign", ![w] = "run"]
      /\ UNCHANGED <<instanceVars, nativeVars, batch, current, call, raised, count, historyVars>>
  BY DEF Spawn, Threads
<1>2. pc \in [Threads -> Pcs]
  BY DEF TypeOK, Pcs
<1> QED
  BY <1>1, <1>2

\* Only RunBegin leads into the loop.
LEMMA LoopStep ==
  ASSUME TypeOK, Next, NEW u \in Threads, InLoop(u)'
  PROVE  InLoop(u) \/ RunBegin(u)
<1>t. current \in [Threads -> Messages \cup {NoMessage}]
  BY DEF TypeOK
<1>1. ASSUME UNCHANGED pc PROVE InLoop(u)
  <2>1. \A t \in Threads : ~(Each(t) /\ batch[t] # <<>>) /\ ~AutoRelease(t)
    BY <1>1 DEF Each, AutoRelease, Goto, TypeOK
  <2>2. \A t \in Threads : Each(t) /\ batch[t] = <<>> => UNCHANGED current
    BY DEF Each
  <2> QED
    BY <1>1, <2>1, <2>2, BatchFrame DEF InLoop
<1>2. ASSUME NEW t \in Threads, NEW l, Moves(t, l), Edge(t, l) PROVE InLoop(u) \/ RunBegin(u)
  <2>1. pc'[t] = l /\ \A v \in Threads : v # t => pc'[v] = pc[v]
    BY <1>2, MoveUpdate
  <2>2. \A v \in Threads : v # t => current'[v] = current[v]
    <3>1. \A v \in Threads : (Each(v) \/ AutoRelease(v)) => Moves(v, pc'[v]) /\ pc'[v] # pc[v]
      BY DEF Each, AutoRelease, Goto, Moves, TypeOK
    <3>2. \A v \in Threads : (Each(v) \/ AutoRelease(v)) => v = t
      BY <3>1, <2>1
    <3>3. \A v, x \in Threads : (Each(v) \/ AutoRelease(v)) /\ x # v => current'[x] = current[x]
      BY <1>t DEF Each, AutoRelease
    <3> QED
      BY <3>2, <3>3, BatchFrame
  <2>3. CASE u # t
    BY <2>1, <2>2, <2>3 DEF InLoop
  <2>4. CASE u = t
    <3>1. CASE pc[t] \in LoopPcs
      BY <2>4, <3>1 DEF InLoop
    <3>2. CASE pc[t] \notin LoopPcs
      <4>1. current'[t] = current[t]
        <5>1. ~Each(t) /\ ~AutoRelease(t)
          BY <3>2 DEF Each, AutoRelease, LoopPcs
        <5>2. \A v, x \in Threads : (Each(v) \/ AutoRelease(v)) /\ x # v => current'[x] = current[x]
          BY <1>t DEF Each, AutoRelease
        <5> QED
          BY <5>1, <5>2, BatchFrame
      <4>2. pc[t] = "run" => RunBegin(t)
        BY <1>2 DEF Edge
      <4>3. l \in LoopPcs => pc[t] = "run" \/ current[t] # NoMessage
        BY <1>2, <3>2 DEF Edge, LoopPcs
      <4> QED
        BY <2>1, <2>4, <4>1, <4>2, <4>3 DEF InLoop
    <3> QED
      BY <3>1, <3>2
  <2> QED
    BY <2>3, <2>4
<1>3. ASSUME NEW t \in Threads, NEW w \in Workers, Spawn(t, w) PROVE InLoop(u)
  BY <1>3, SpawnUpdate DEF InLoop, LoopPcs
<1> QED
  BY <1>1, <1>2, <1>3, EdgeFrame

\* What the steps of report_timeouts do to the counters.
LEMMA HookBound ==
  ASSUME TypeOK, NEW n \in Nat, CallHook(n)
  PROVE  /\ reports <= reports' /\ reports' \in 0 .. MaxTimeouts + 1
         /\ reports' = reports + n \/ (reports' = MaxTimeouts + 1 /\ reports + n > MaxTimeouts)
BY DispatcherAssumption DEF TypeOK, CallHook

\* (count - @reported_timeouts).times is a number of times.
LEMMA UnreportedType ==
  ASSUME TypeOK, NEW t \in Threads
  PROVE  /\ Unreported(t) \in Nat
         /\ count[t] > reported_timeouts => Unreported(t) = count[t] - reported_timeouts
         /\ count[t] <= reported_timeouts => Unreported(t) = 0
<1>1. count[t] \in Nat /\ reported_timeouts \in Nat
  BY DispatcherAssumption DEF TypeOK
<1> QED
  BY <1>1 DEF Unreported

\* The on_timeout hook is called from report_timeouts only, and its count
\* never goes back.
LEMMA ReportsGrow ==
  ASSUME TypeOK, Next
  PROVE  reports' \in 0 .. MaxTimeouts + 1 /\ reports <= reports'
<1>0. reports \in 0 .. MaxTimeouts + 1 /\ MaxTimeouts \in Nat
  BY DispatcherAssumption DEF TypeOK
<1>1. ASSUME NEW t \in Threads, ReportHooks(t) PROVE reports' \in 0 .. MaxTimeouts + 1 /\ reports <= reports'
  BY <1>1, UnreportedType, HookBound DEF ReportHooks
<1>2. ASSUME NEW t \in Threads, ReportRaises(t) PROVE reports' \in 0 .. MaxTimeouts + 1 /\ reports <= reports'
  <2>1. PICK n \in 1 .. Unreported(t) : CallHook(n)
    BY <1>2 DEF ReportRaises
  <2>2. n \in Nat
    BY UnreportedType, <2>1
  <2> QED
    BY <2>1, <2>2, HookBound
<1> QED
  BY <1>0, <1>1, <1>2, CountFrame

\* count and @reported_timeouts follow the watchdog's counter, and no loop
\* remembers a count before its hooks were called for it.
LEMMA CountStep ==
  ASSUME TypeOK, CountInv, Next
  PROVE  CountInv'
<1>t. /\ timeouts \in Nat /\ reported_timeouts \in Nat /\ reports \in Nat /\ MaxTimeouts \in Nat
      /\ count \in [Threads -> Nat] /\ \A t \in Threads : count[t] <= MaxTimeouts
  <2>1. count \in [Threads -> 0 .. MaxTimeouts] /\ 0 .. MaxTimeouts \subseteq Nat
    BY DispatcherAssumption DEF TypeOK
  <2>2. \A t \in Threads : count[t] <= MaxTimeouts
    BY <2>1, DispatcherAssumption
  <2> QED
    BY <2>1, <2>2, DispatcherAssumption DEF TypeOK
<1>g. reports' \in Nat /\ reports <= reports'
  BY ReportsGrow, <1>t
<1>i. timeouts' \in Nat /\ timeouts <= timeouts'
  BY <1>t, CountFrame DEF CountTimeout
<1>1. reported_timeouts' \in Nat /\ reported_timeouts' <= timeouts'
  <2>1. ASSUME NEW t \in Threads, ReportDone(t) PROVE reported_timeouts' \in Nat /\ reported_timeouts' <= timeouts'
    BY <2>1, <1>t, <1>i DEF ReportDone, CountInv
  <2> QED
    BY <1>t, <1>i, <2>1, InstanceFrame DEF CountInv
<1>2. \A t \in Threads : count'[t] \in Nat /\ count'[t] <= timeouts'
  <2>1. ASSUME NEW u \in Threads, ReportTimeouts(u), NEW t \in Threads PROVE count'[t] \in Nat /\ count'[t] <= timeouts'
    <3>1. count'[t] = timeouts \/ count'[t] = count[t]
      BY <2>1, <1>t DEF ReportTimeouts
    <3> QED
      BY <3>1, <1>t, <1>i DEF CountInv
  <2>2. ASSUME NEW t \in Threads, UNCHANGED count PROVE count'[t] \in Nat /\ count'[t] <= timeouts'
    BY <2>2, <1>t, <1>i DEF CountInv
  <2>3. ASSUME NEW u \in Threads, ReportDone(u) \/ ReportRaises(u), NEW t \in Threads
        PROVE  count'[t] \in Nat /\ count'[t] <= timeouts'
    <3>1. count'[t] = 0 \/ count'[t] = count[t]
      BY <2>3, <1>t DEF ReportDone, ReportRaises, ForgetCount
    <3> QED
      BY <3>1, <1>t, <1>i DEF CountInv
  <2> QED
    BY <2>1, <2>2, <2>3, CountFrame
<1>3. reported_timeouts' <= reports'
  <2>1. ASSUME NEW t \in Threads, ReportDone(t) PROVE reported_timeouts' <= reports'
    <3>1. reported_timeouts' = count[t] /\ count[t] <= reports
      BY <2>1 DEF ReportDone, CountInv
    <3> QED
      BY <3>1, <1>t, <1>g
  <2> QED
    BY <1>t, <1>g, <2>1, InstanceFrame DEF CountInv, NoTimeoutSkipped
<1>4. ASSUME NEW t \in Threads, pc'[t] = "reported" PROVE count'[t] <= reports'
  <2>1. CASE ReportHooks(t)
    <3>1. UNCHANGED count /\ CallHook(Unreported(t))
      BY <2>1 DEF ReportHooks, localVars
    <3>2. reported_timeouts <= reports
      BY DEF CountInv, NoTimeoutSkipped
    <3>3. CASE count[t] <= reported_timeouts
      BY <3>1, <3>2, <3>3, <1>t, <1>g
    <3>4. CASE count[t] > reported_timeouts
      <4>1. Unreported(t) = count[t] - reported_timeouts /\ Unreported(t) \in Nat
        BY <3>4, UnreportedType
      <4>2. reports' = reports + Unreported(t) \/ reports' = MaxTimeouts + 1
        BY <4>1, <3>1, HookBound
      <4>3. count[t] \in Nat /\ count[t] <= MaxTimeouts
        BY <1>t
      <4> QED
        BY <4>1, <4>2, <4>3, <3>1, <3>2, <1>t
    <3> QED
      BY <3>3, <3>4, <1>t
  <2>2. CASE ~ReportHooks(t)
    <3>1. pc[t] = "reported"
      <4>1. ASSUME NEW u \in Threads, NEW l, Moves(u, l), Edge(u, l) PROVE pc[t] = "reported"
        <5>1. u = t => l = "reported"
          BY <4>1, <1>4, MoveUpdate
        <5>2. l = "reported" => ReportHooks(u)
          BY <4>1 DEF Edge
        <5> QED
          BY <4>1, <5>1, <5>2, <1>4, <2>2, MoveUpdate
      <4>2. ASSUME NEW u \in Threads, NEW w \in Workers, Spawn(u, w) PROVE pc[t] = "reported"
        BY <4>2, <1>4, SpawnUpdate
      <4> QED
        BY <1>4, <4>1, <4>2, EdgeFrame
    <3>2. count'[t] = count[t] \/ count'[t] = 0
      <4>1. ASSUME NEW u \in Threads, ReportTimeouts(u) PROVE count'[t] = count[t]
        <5>1. u # t
          BY <4>1, <3>1 DEF ReportTimeouts
        <5> QED
          BY <4>1, <5>1, <1>t DEF ReportTimeouts
      <4>2. ASSUME NEW u \in Threads, ReportDone(u) \/ ReportRaises(u) PROVE count'[t] = count[t] \/ count'[t] = 0
        BY <4>2, <1>t DEF ReportDone, ReportRaises, ForgetCount
      <4> QED
        BY <4>1, <4>2, CountFrame
    <3> QED
      BY <3>1, <3>2, <1>t, <1>g DEF CountInv
  <2> QED
    BY <2>1, <2>2
<1> QED
  BY <1>1, <1>2, <1>3, <1>4 DEF CountInv, NoTimeoutSkipped

\* One loop at a time: then each timeout is reported by the loop that counts
\* it, and remembered before the next one is counted.
LEMMA OneLoopStep ==
  ASSUME TypeOK, CountInv, OneLoopInv, Next
  PROVE  OneLoopInv'
<1> SUFFICES ASSUME ~disturbed'
             PROVE  /\ \A t, u \in Threads : InLoop(t)' /\ InLoop(u)' => t = u
                    /\ \A t \in Threads : pc'[t] \in {"reporting", "reported"} => reported_timeouts' <= count'[t]
                    /\ \A t \in Threads : pc'[t] = "reported" => reports' = count'[t]
                    /\ (\A t \in Threads : pc'[t] # "reported") => reports' = reported_timeouts'
  BY DEF OneLoopInv
<1>t. /\ timeouts \in Nat /\ reported_timeouts \in Nat /\ reports \in Nat /\ MaxTimeouts \in Nat
      /\ count \in [Threads -> Nat] /\ \A t \in Threads : count[t] <= MaxTimeouts
  <2>1. count \in [Threads -> 0 .. MaxTimeouts] /\ 0 .. MaxTimeouts \subseteq Nat
    BY DispatcherAssumption DEF TypeOK
  <2>2. \A t \in Threads : count[t] <= MaxTimeouts
    BY <2>1, DispatcherAssumption
  <2> QED
    BY <2>1, <2>2, DispatcherAssumption DEF TypeOK
<1>d. /\ ~disturbed
      /\ \A t \in Threads : RunBegin(t) => \A u \in Threads : ~InLoop(u)
      /\ \A t \in Threads : ~ReportRaises(t)
  <2>1. \A t \in Threads : ~ReportRaises(t)
    BY DEF ReportRaises
  <2>2. ASSUME NEW t \in Threads, RunBegin(t) PROVE ~disturbed /\ \A u \in Threads : ~InLoop(u)
    BY <2>2, Zenon DEF RunBegin
  <2> QED
    BY <2>1, <2>2, CountFrame
<1>o. /\ \A t, u \in Threads : InLoop(t) /\ InLoop(u) => t = u
      /\ \A t \in Threads : pc[t] \in {"reporting", "reported"} => reported_timeouts <= count[t]
      /\ \A t \in Threads : pc[t] = "reported" => reports = count[t]
      /\ (\A t \in Threads : pc[t] # "reported") => reports = reported_timeouts
  BY <1>d DEF OneLoopInv
<1>1. \A t, u \in Threads : InLoop(t)' /\ InLoop(u)' => t = u
  <2> SUFFICES ASSUME NEW t \in Threads, NEW u \in Threads, InLoop(t)', InLoop(u)' PROVE t = u
    OBVIOUS
  <2>1. (InLoop(t) \/ RunBegin(t)) /\ (InLoop(u) \/ RunBegin(u))
    BY LoopStep
  <2>2. RunBegin(t) /\ RunBegin(u) => t = u
    <3> SUFFICES ASSUME RunBegin(t), RunBegin(u), t # u PROVE FALSE
      OBVIOUS
    <3>1. Moves(t, "open") /\ Moves(u, "open") /\ pc[t] = "run"
      BY DEF RunBegin, Goto, Moves
    <3>2. pc'[t] = "open"
      BY <3>1, MoveUpdate
    <3>3. pc'[t] = pc[t]
      BY <3>1, MoveUpdate
    <3> QED
      BY <3>1, <3>2, <3>3
  <2> QED
    BY <2>1, <2>2, <1>d, <1>o
\* Whoever is at report_timeouts is the only one who moves its counters.
<1>2. \A t \in Threads : pc[t] \in LoopPcs => InLoop(t)
  BY DEF InLoop
<1>3. \A t \in Threads : pc[t] \in {"report", "reporting", "reported"} =>
        \A u \in Threads : pc[u] \in {"report", "reporting", "reported"} => u = t
  BY <1>2, <1>o DEF LoopPcs
<1>4. ASSUME NEW t \in Threads, ReportTimeouts(t)
      PROVE  /\ pc[t] = "report" /\ pc'[t] = "reporting" /\ count'[t] = timeouts
             /\ UNCHANGED <<reports, reported_timeouts>>
             /\ \A u \in Threads : u # t => pc'[u] = pc[u]
  <2>1. /\ Moves(t, "reporting") /\ pc[t] = "report" /\ count' = [count EXCEPT ![t] = timeouts]
        /\ UNCHANGED <<reports, reported_timeouts>>
    BY <1>4 DEF ReportTimeouts, Goto, Moves, historyVars, instanceVars
  <2> QED
    BY <2>1, <1>t, MoveUpdate
<1>5. ASSUME NEW t \in Threads, ReportHooks(t)
      PROVE  /\ pc[t] = "reporting" /\ pc'[t] = "reported" /\ CallHook(Unreported(t))
             /\ UNCHANGED <<count, reported_timeouts>>
             /\ \A u \in Threads : u # t => pc'[u] = pc[u]
  <2>1. /\ Moves(t, "reported") /\ pc[t] = "reporting" /\ CallHook(Unreported(t))
        /\ UNCHANGED <<count, reported_timeouts>>
    BY <1>5 DEF ReportHooks, Goto, Moves, localVars, instanceVars
  <2> QED
    BY <2>1, MoveUpdate
<1>6. ASSUME NEW t \in Threads, ReportDone(t)
      PROVE  /\ pc[t] = "reported" /\ pc'[t] = "while" /\ reported_timeouts' = count[t]
             /\ UNCHANGED reports
             /\ \A u \in Threads : u # t => pc'[u] = pc[u]
  <2>1. /\ Moves(t, "while") /\ pc[t] = "reported" /\ reported_timeouts' = count[t]
        /\ UNCHANGED reports
    BY <1>6 DEF ReportDone, Goto, Moves, historyVars
  <2> QED
    BY <2>1, MoveUpdate
<1> DEFINE Goal == /\ \A t \in Threads : pc'[t] \in {"reporting", "reported"} => reported_timeouts' <= count'[t]
                   /\ \A t \in Threads : pc'[t] = "reported" => reports' = count'[t]
                   /\ (\A t \in Threads : pc'[t] # "reported") => reports' = reported_timeouts'
<1>7. ASSUME NEW t \in Threads, ReportTimeouts(t) PROVE Goal
  <2>1. \A u \in Threads : u # t => pc[u] \notin {"reporting", "reported"}
    BY <1>3, <1>4, <1>7
  <2>2. reported_timeouts <= timeouts
    BY DEF CountInv
  <2>3. reports = reported_timeouts
    BY <1>4, <1>7, <1>o, <2>1
  <2> QED
    BY <1>4, <1>7, <2>1, <2>2, <2>3
<1>8. ASSUME NEW t \in Threads, ReportHooks(t) PROVE Goal
  <2>1. \A u \in Threads : u # t => pc[u] \notin {"reporting", "reported"}
    BY <1>3, <1>5, <1>8
  <2>2. reported_timeouts <= count[t]
    BY <1>5, <1>8, <1>o
  <2>3. reports = reported_timeouts
    BY <1>5, <1>8, <1>o, <2>1
  <2>4. count[t] \in Nat /\ count[t] <= MaxTimeouts
    BY <1>t
  <2>5. Unreported(t) = count[t] - reported_timeouts /\ Unreported(t) \in Nat
    BY <2>2, <2>4, <1>t, UnreportedType
  <2>6. reports + Unreported(t) = count[t]
    BY <2>3, <2>4, <2>5, <1>t
  <2>7. ~(reports + Unreported(t) > MaxTimeouts)
    BY <2>4, <2>6, <1>t
  <2>8. reports' = count[t]
    BY <1>5, <1>8, <2>5, <2>6, <2>7, HookBound
  <2> QED
    BY <1>5, <1>8, <2>1, <2>2, <2>8
<1>9. ASSUME NEW t \in Threads, ReportDone(t) PROVE Goal
  <2>1. \A u \in Threads : u # t => pc[u] \notin {"reporting", "reported"}
    BY <1>3, <1>6, <1>9
  <2>2. reports = count[t]
    BY <1>6, <1>9, <1>o
  <2> QED
    BY <1>6, <1>9, <2>1, <2>2
<1>10. ASSUME UNCHANGED <<count, reports, reported_timeouts>>,
              \A t \in Threads : ~ReportTimeouts(t) /\ ~ReportHooks(t) /\ ~ReportDone(t)
       PROVE  Goal
  <2>1. \A t \in Threads : /\ pc'[t] = "reporting" => pc[t] = "reporting"
                           /\ pc'[t] = "reported" <=> pc[t] = "reported"
    <3>1. ASSUME NEW u \in Threads, NEW l, Moves(u, l), Edge(u, l), NEW t \in Threads
          PROVE  /\ pc'[t] = "reporting" => pc[t] = "reporting"
                 /\ pc'[t] = "reported" <=> pc[t] = "reported"
      <4>1. l \notin {"reporting", "reported"} /\ pc[u] # "reported"
        BY <3>1, <1>10 DEF Edge
      <4> QED
        BY <4>1, <3>1, MoveUpdate
    <3>2. ASSUME NEW u \in Threads, NEW w \in Workers, Spawn(u, w), NEW t \in Threads
          PROVE  /\ pc'[t] = "reporting" => pc[t] = "reporting"
                 /\ pc'[t] = "reported" <=> pc[t] = "reported"
      BY <3>2, SpawnUpdate
    <3> QED
      BY <3>1, <3>2, EdgeFrame
  <2> QED
    BY <1>10, <1>o, <2>1
<1> QED
  <2>1. Goal
    BY <1>7, <1>8, <1>9, <1>10, <1>d, InstanceFrame, CountFrame
  <2> QED
    BY <1>1, <2>1

\* In #dispatch there is a message.
LEMMA HandlerStep ==
  ASSUME TypeOK, HandlerInv, Next
  PROVE  HandlerInv'
<1>t. current \in [Threads -> Messages \cup {NoMessage}]
  BY DEF TypeOK
<1> SUFFICES ASSUME NEW u \in Threads, pc'[u] \in HandlerPcs PROVE current'[u] # NoMessage
  BY DEF HandlerInv
<1>1. ASSUME NEW t \in Threads, Each(t), u = t PROVE current'[u] # NoMessage
  <2>1. CASE batch[t] = <<>>
    <3>1. Moves(t, "report")
      BY <1>1, <2>1 DEF Each, Goto, Moves
    <3> QED
      BY <3>1, <1>1, MoveUpdate DEF HandlerPcs
  <2>2. CASE batch[t] # <<>>
    <3>1. batch[t] \in Seq(Messages)
      BY DEF TypeOK
    <3>2. Head(batch[t]) \in Messages
      BY <2>2, <3>1
    <3>3. current'[t] = Head(batch[t])
      BY <1>1, <2>2, <1>t DEF Each
    <3> QED
      BY <1>1, <3>2, <3>3, DispatcherAssumption DEF Messages, NoMessage
  <2> QED
    BY <2>1, <2>2
<1>2. CASE AutoRelease(u)
  <2>1. Moves(u, "end_dispatch")
    BY <1>2 DEF AutoRelease, Goto, Moves
  <2> QED
    BY <2>1, MoveUpdate DEF HandlerPcs
<1>3. ASSUME ~Each(u), ~AutoRelease(u) PROVE current'[u] # NoMessage
  <2>1. current'[u] = current[u]
    <3>1. \A t \in Threads : (Each(t) \/ AutoRelease(t)) /\ u # t => current'[u] = current[u]
      BY <1>t DEF Each, AutoRelease
    <3> QED
      BY <3>1, <1>3, BatchFrame
  <2>2. ASSUME NEW t \in Threads, NEW l, Moves(t, l), Edge(t, l) PROVE current[u] # NoMessage
    <3>1. CASE u # t
      BY <2>2, <3>1, MoveUpdate DEF HandlerInv
    <3>2. CASE u = t
      <4>1. l \in HandlerPcs
        BY <2>2, <3>2, MoveUpdate
      <4>2. pc[t] \in HandlerPcs \/ current[t] # NoMessage
        BY <2>2, <3>2, <4>1, <1>3 DEF Edge, HandlerPcs
      <4> QED
        BY <3>2, <4>2 DEF HandlerInv
    <3> QED
      BY <3>1, <3>2
  <2>3. ASSUME NEW t \in Threads, NEW w \in Workers, Spawn(t, w) PROVE current[u] # NoMessage
    BY <2>3, SpawnUpdate DEF HandlerInv, HandlerPcs
  <2> QED
    BY <2>1, <2>2, <2>3, EdgeFrame DEF HandlerInv
<1> QED
  BY <1>1, <1>2, <1>3

\* The rest of a batch is looked at until an exception ends the loop.
LEMMA BatchStep ==
  ASSUME TypeOK, HandlerInv, BatchInv, Next
  PROVE  BatchInv'
<1>t. /\ current \in [Threads -> Messages \cup {NoMessage}] /\ batch \in [Threads -> Seq(Messages)]
      /\ raised \in [Threads -> BOOLEAN]
  BY DEF TypeOK
<1> SUFFICES ASSUME NEW u \in Threads, batch'[u] # <<>>
             PROVE  \/ pc'[u] \in DispatchPcs
                    \/ pc'[u] \in CallPcs /\ current'[u] # NoMessage
                    \/ pc'[u] = "ensure" /\ raised'[u]
  BY DEF BatchInv
<1>1. CASE Drain(u)
  <2>1. Moves(u, "each")
    BY <1>1 DEF Drain, Goto, Moves
  <2> QED
    BY <2>1, MoveUpdate DEF DispatchPcs
<1>2. CASE Each(u)
  <2>1. batch[u] = <<>> => UNCHANGED batch
    BY <1>2 DEF Each
  <2>2. Moves(u, "handler")
    BY <1>2, <2>1 DEF Each, Goto, Moves
  <2> QED
    BY <2>2, MoveUpdate DEF DispatchPcs
<1>3. CASE Ensure(u)
  <2>1. batch'[u] = <<>>
    BY <1>3, <1>t DEF Ensure
  <2> QED
    BY <2>1
<1>4. ASSUME ~Drain(u), ~Each(u), ~Ensure(u)
      PROVE  \/ pc'[u] \in DispatchPcs
             \/ pc'[u] \in CallPcs /\ current'[u] # NoMessage
             \/ pc'[u] = "ensure" /\ raised'[u]
  <2>1. batch'[u] = batch[u]
    <3>1. \A t \in Threads : (Drain(t) \/ Each(t) \/ Ensure(t)) /\ u # t => batch'[u] = batch[u]
      BY <1>t DEF Drain, Each, Ensure
    <3> QED
      BY <3>1, <1>4, BatchFrame
  <2>2. raised[u] => raised'[u]
    <3>1. \A t \in Threads : (OpenWakeup(t) \/ DrainClosed(t) \/ ReportRaises(t) \/ Rescue(t)) =>
            UNCHANGED raised \/ raised' = [raised EXCEPT ![t] = TRUE]
      BY DEF OpenWakeup, DrainClosed, ReportRaises, Rescue, Raise
    <3>2. \A t \in Threads : Ensure(t) => \E x : raised' = [raised EXCEPT ![t] = x]
      BY DEF Ensure
    <3> QED
      BY <3>1, <3>2, <1>t, <1>4, RaisedFrame
  <2>3. ASSUME ~AutoRelease(u) PROVE current'[u] = current[u]
    <3>1. \A t \in Threads : (Each(t) \/ AutoRelease(t)) /\ u # t => current'[u] = current[u]
      BY <1>t DEF Each, AutoRelease
    <3> QED
      BY <3>1, <1>4, <2>3, BatchFrame
  <2>4. \/ pc[u] \in DispatchPcs
        \/ pc[u] \in CallPcs /\ current[u] # NoMessage
        \/ pc[u] = "ensure" /\ raised[u]
    BY <2>1 DEF BatchInv
  <2>5. CASE AutoRelease(u)
    <3>1. Moves(u, "end_dispatch")
      BY <2>5 DEF AutoRelease, Goto, Moves
    <3> QED
      BY <3>1, MoveUpdate DEF DispatchPcs
  <2>6. ASSUME ~AutoRelease(u), pc'[u] = pc[u]
        PROVE  \/ pc'[u] \in DispatchPcs
               \/ pc'[u] \in CallPcs /\ current'[u] # NoMessage
               \/ pc'[u] = "ensure" /\ raised'[u]
    BY <2>2, <2>3, <2>4, <2>6
  <2>7. ASSUME ~AutoRelease(u), NEW l, Moves(u, l), Edge(u, l)
        PROVE  \/ pc'[u] \in DispatchPcs
               \/ pc'[u] \in CallPcs /\ current'[u] # NoMessage
               \/ pc'[u] = "ensure" /\ raised'[u]
    <3>1. pc'[u] = l
      BY <2>7, MoveUpdate
    <3>2. pc[u] = "handler" => current[u] # NoMessage
      BY DEF HandlerInv, HandlerPcs
    <3>3. \/ l \in DispatchPcs
          \/ l \in CallPcs /\ current[u] # NoMessage
          \/ l = "ensure" /\ raised[u]
      BY <2>4, <2>7, <3>2, <1>4 DEF Edge, DispatchPcs, CallPcs
    <3> QED
      BY <2>2, <2>3, <2>7, <3>1, <3>3
  <2>8. ASSUME NEW t \in Threads, NEW w \in Workers, Spawn(t, w)
        PROVE  \/ pc'[u] \in DispatchPcs
               \/ pc'[u] \in CallPcs /\ current'[u] # NoMessage
               \/ pc'[u] = "ensure" /\ raised'[u]
    BY <2>4, <2>8, SpawnUpdate DEF DispatchPcs, CallPcs
  <2> QED
    BY <2>5, <2>6, <2>7, <2>8, EdgeFrame, MoveUpdate
<1> QED
  BY <1>1, <1>2, <1>3, <1>4

\* call[t] is set at the beginning of #stop and #close and reset at their end.
LEMMA CallStep ==
  ASSUME TypeOK, CallInv, Next
  PROVE  CallInv'
<1>t. call \in [Threads -> {"none", "stop", "close"}]
  BY DEF TypeOK
<1> SUFFICES ASSUME NEW u \in Threads, call'[u] # "none" PROVE pc'[u] \in StopPcs
  BY DEF CallInv
<1>1. ASSUME NEW t \in Threads, CallStop(t) \/ CallClose(t) PROVE pc'[u] \in StopPcs
  <2>1. \/ Moves(t, "stop") /\ \E x : call' = [call EXCEPT ![t] = x]
        \/ UNCHANGED <<call, pc>>
    BY <1>1 DEF CallStop, CallClose, Goto, Moves
  <2> QED
    BY <2>1, <1>t, MoveUpdate DEF CallInv, StopPcs
<1>2. ASSUME NEW t \in Threads, CallDone(t, "handler") \/ CallDone(t, "rescue") PROVE pc'[u] \in StopPcs
  <2>1. PICK l : Moves(t, l)
    BY <1>2 DEF CallDone, Goto, Moves
  <2>2. call' = [call EXCEPT ![t] = "none"]
    BY <1>2 DEF CallDone
  <2>3. u # t /\ call'[u] = call[u]
    BY <2>2, <1>t
  <2> QED
    BY <2>1, <2>3, MoveUpdate DEF CallInv
<1>3. ASSUME UNCHANGED call PROVE pc'[u] \in StopPcs
  <2>1. pc[u] \in StopPcs
    BY <1>3 DEF CallInv
  <2>2. ASSUME NEW t \in Threads, NEW l, Moves(t, l), Edge(t, l), u = t PROVE l \in StopPcs
    <3>1. call' # [call EXCEPT ![t] = "none"]
      BY <1>t, <2>2
    <3> QED
      BY <2>1, <2>2, <3>1 DEF Edge, StopPcs
  <2> QED
    BY <2>1, <2>2, EdgeFrame, MoveUpdate, SpawnUpdate DEF StopPcs
<1> QED
  BY <1>1, <1>2, <1>3, CallFrame
  DEF JoinNobody, Joined, AfterStop, JoinRaises, CloseNative, AssignThread

\* Every variable keeps its range.
LEMMA TypeStep ==
  ASSUME TypeOK, CountInv', Next
  PROVE  TypeOK'
<1>c. MaxTimeouts \in Nat /\ MessageCount \in Nat /\ BatchMax \in Nat
  BY DispatcherAssumption
<1>1. /\ running' \in BOOLEAN /\ dispatching' \in BOOLEAN /\ close_after_dispatch' \in BOOLEAN
      /\ closed' \in BOOLEAN
  <2>0. /\ running \in BOOLEAN /\ dispatching \in BOOLEAN /\ close_after_dispatch \in BOOLEAN
        /\ closed \in BOOLEAN
    BY DEF TypeOK
  <2> QED
    BY <2>0, FlagFrame, Zenon
<1>2. thread' \in Workers \cup {None}
  <2>1. thread \in Workers \cup {None} /\ joining \in [Threads -> Workers \cup {None}]
    BY DEF TypeOK
  <2>2. ASSUME NEW t \in Threads, AssignThread(t) PROVE thread' \in Workers \cup {None}
    <3>1. thread' = joining[t]
      BY <2>2 DEF AssignThread
    <3> QED
      BY <2>1, <3>1
  <2> QED
    BY <2>1, <2>2, InstanceFrame
<1>3. queue' \in Seq(Messages)
  <2>1. queue \in Seq(Messages) /\ Len(queue) \in Nat
    BY DEF TypeOK
  <2>2. ASSUME NEW m \in Messages, Arrive(m) PROVE queue' \in Seq(Messages)
    BY <2>1, <2>2 DEF Arrive
  <2>3. ASSUME NEW t \in Threads, Drain(t) PROVE queue' \in Seq(Messages)
    BY <2>1, <2>3, DrainTypes
  <2>4. <<>> \in Seq(Messages)
    OBVIOUS
  <2> QED
    BY <2>1, <2>2, <2>3, <2>4, QueueFrame
<1>4. timeouts' \in 0 .. MaxTimeouts /\ reported_timeouts' \in 0 .. MaxTimeouts
  <2>1. timeouts \in 0 .. MaxTimeouts /\ reported_timeouts \in 0 .. MaxTimeouts
        /\ count \in [Threads -> 0 .. MaxTimeouts]
    BY DEF TypeOK
  <2>2. timeouts' \in 0 .. MaxTimeouts
    BY <1>c, <2>1, CountFrame DEF CountTimeout
  <2>3. reported_timeouts' \in 0 .. MaxTimeouts
    BY <2>1, InstanceFrame DEF ReportDone
  <2> QED
    BY <2>2, <2>3
<1>5. reports' \in 0 .. MaxTimeouts + 1
  BY ReportsGrow
<1>6. disturbed' \in BOOLEAN
  <2>1. \A t \in Threads : RunBegin(t) \/ ReportRaises(t) => disturbed' \in BOOLEAN
    BY Zenon DEF RunBegin, ReportRaises, TypeOK
  <2>2. disturbed \in BOOLEAN
    BY DEF TypeOK
  <2> QED
    BY <2>1, <2>2, CountFrame
<1>7. status' \in [Messages -> {"unsent", "queued", "drained", "held", "released", "abandoned"}]
  <2>1. status \in [Messages -> {"unsent", "queued", "drained", "held", "released", "abandoned"}]
    BY DEF TypeOK
  <2>2. ASSUME NEW S, NEW x \in {"queued", "drained", "held", "released", "abandoned"}, SetStatus(S, x)
        PROVE  status' \in [Messages -> {"unsent", "queued", "drained", "held", "released", "abandoned"}]
    BY <2>1, <2>2 DEF SetStatus
  <2> QED
    BY <2>1, <2>2, StatusFrame
<1>8. pc' \in [Threads -> RunPcs \cup CallPcs \cup {"idle", "unborn", "dead"}]
  <2>0. pc \in [Threads -> Pcs]
    BY DEF TypeOK, Pcs
  <2>1. ASSUME NEW t \in Threads, NEW l, Moves(t, l), Edge(t, l) PROVE pc' \in [Threads -> Pcs]
    <3>1. l \in Pcs
      BY <2>1 DEF Edge, Pcs, RunPcs, LoopPcs, CallPcs
    <3> QED
      BY <2>0, <2>1, <3>1 DEF Moves
  <2>2. ASSUME NEW t \in Threads, NEW w \in Workers, Spawn(t, w) PROVE pc' \in [Threads -> Pcs]
    <3>1. "assign" \in Pcs /\ "run" \in Pcs
      BY DEF Pcs, RunPcs, CallPcs
    <3> QED
      BY <2>0, <2>2, <3>1 DEF Spawn
  <2> QED
    BY <2>0, <2>1, <2>2, EdgeFrame DEF Pcs
<1>9. batch' \in [Threads -> Seq(Messages)]
  <2>1. batch \in [Threads -> Seq(Messages)]
    BY DEF TypeOK
  <2>2. ASSUME NEW t \in Threads, Drain(t) PROVE batch' \in [Threads -> Seq(Messages)]
    BY <2>1, <2>2, DrainTypes
  <2>3. ASSUME NEW t \in Threads, Each(t) PROVE batch' \in [Threads -> Seq(Messages)]
    <3>1. batch[t] # <<>> => Tail(batch[t]) \in Seq(Messages)
      BY <2>1
    <3>2. UNCHANGED batch \/ (batch[t] # <<>> /\ batch' = [batch EXCEPT ![t] = Tail(batch[t])])
      BY <2>3 DEF Each
    <3> QED
      BY <2>1, <3>1, <3>2
  <2>4. ASSUME NEW t \in Threads, Ensure(t) PROVE batch' \in [Threads -> Seq(Messages)]
    <3>1. <<>> \in Seq(Messages) /\ batch' = [batch EXCEPT ![t] = <<>>]
      BY <2>4 DEF Ensure
    <3> QED
      BY <2>1, <3>1
  <2> QED
    BY <2>1, <2>2, <2>3, <2>4, BatchFrame
<1>10. current' \in [Threads -> Messages \cup {NoMessage}]
  <2>1. current \in [Threads -> Messages \cup {NoMessage}] /\ batch \in [Threads -> Seq(Messages)]
    BY DEF TypeOK
  <2>2. ASSUME NEW t \in Threads, Each(t) PROVE current' \in [Threads -> Messages \cup {NoMessage}]
    <3>1. batch[t] # <<>> => Head(batch[t]) \in Messages
      BY <2>1
    <3>2. UNCHANGED current \/ (batch[t] # <<>> /\ current' = [current EXCEPT ![t] = Head(batch[t])])
      BY <2>2 DEF Each
    <3> QED
      BY <2>1, <3>1, <3>2
  <2>3. ASSUME NEW t \in Threads, AutoRelease(t) PROVE current' \in [Threads -> Messages \cup {NoMessage}]
    BY <2>1, <2>3 DEF AutoRelease
  <2> QED
    BY <2>1, <2>2, <2>3, BatchFrame
<1>11. call' \in [Threads -> {"none", "stop", "close"}]
  <2>1. call \in [Threads -> {"none", "stop", "close"}]
    BY DEF TypeOK
  <2>2. UNCHANGED call \/ \E t \in Threads, x \in {"none", "stop", "close"} : call' = [call EXCEPT ![t] = x]
    BY CallFrame, Zenon DEF CallStop, CallClose, JoinNobody, Joined, AfterStop, CallDone, JoinRaises, CloseNative,
       AssignThread
  <2> QED
    BY <2>1, <2>2
<1>12. joining' \in [Threads -> Workers \cup {None}]
  <2>1. joining \in [Threads -> Workers \cup {None}] /\ thread \in Workers \cup {None}
    BY DEF TypeOK
  <2>2. UNCHANGED joining \/ \E t \in Threads, x \in Workers \cup {None, thread} : joining' = [joining EXCEPT ![t] = x]
    BY JoiningFrame, Zenon DEF JoinThread, JoinNobody, Joined, AfterStop, CallDone, JoinRaises, CloseNative,
       AssignThread, Spawn
  <2> QED
    BY <2>1, <2>2
<1>13. raised' \in [Threads -> BOOLEAN]
  <2>1. raised \in [Threads -> BOOLEAN]
    BY DEF TypeOK
  <2>2. ASSUME NEW t \in Threads, Ensure(t) PROVE raised' \in [Threads -> BOOLEAN]
    <3>1. PICK x : x = (raised[t] /\ t \in Workers)
      OBVIOUS
    <3>2. raised' = [raised EXCEPT ![t] = x] /\ x \in BOOLEAN
      BY <2>2, <3>1 DEF Ensure
    <3> QED
      BY <2>1, <3>2
  <2>3. \A t \in Threads : (OpenWakeup(t) \/ DrainClosed(t) \/ ReportRaises(t) \/ Rescue(t)) =>
            UNCHANGED raised \/ raised' = [raised EXCEPT ![t] = TRUE]
    BY DEF OpenWakeup, DrainClosed, ReportRaises, Rescue, Raise
  <2> QED
    BY <2>1, <2>2, <2>3, RaisedFrame
<1>14. count' \in [Threads -> 0 .. MaxTimeouts]
  <2>1. count \in [Threads -> 0 .. MaxTimeouts] /\ timeouts \in 0 .. MaxTimeouts
    BY DEF TypeOK
  <2> QED
    BY <2>1, <1>c, CountFrame DEF ReportTimeouts, ReportDone, ReportRaises, ForgetCount
<1> QED
  BY <1>1, <1>2, <1>3, <1>4, <1>5, <1>6, <1>7, <1>8, <1>9, <1>10, <1>11, <1>12, <1>13, <1>14, Zenon DEF TypeOK
-----------------------------------------------------------------------------
(***************************************************************************)
(* The theorems.                                                           *)
(***************************************************************************)

\* The invariant holds when Client.new returns.
LEMMA InitInv == Init => DispatcherInv
<1> SUFFICES ASSUME Init PROVE DispatcherInv
  OBVIOUS
<1>c. MaxTimeouts \in Nat /\ None \notin Threads
  BY DispatcherAssumption
<1>p. \A t \in Threads : pc[t] \in {"idle", "unborn"} /\ current[t] = NoMessage /\ ~InLoop(t)
  BY DEF Init, InLoop, LoopPcs
<1>1. TypeOK
  <2>1. /\ running \in BOOLEAN /\ dispatching \in BOOLEAN /\ close_after_dispatch \in BOOLEAN
        /\ thread \in Workers \cup {None} /\ closed \in BOOLEAN /\ disturbed \in BOOLEAN
    BY Zenon DEF Init
  <2>6. queue \in Seq(Messages)
    BY DEF Init
  <2>2. /\ timeouts \in 0 .. MaxTimeouts /\ reported_timeouts \in 0 .. MaxTimeouts
        /\ reports \in 0 .. MaxTimeouts + 1 /\ count \in [Threads -> 0 .. MaxTimeouts]
    BY <1>c DEF Init
  <2>3. /\ status \in [Messages -> {"unsent", "queued", "drained", "held", "released", "abandoned"}]
        /\ call \in [Threads -> {"none", "stop", "close"}]
        /\ joining \in [Threads -> Workers \cup {None}]
        /\ raised \in [Threads -> BOOLEAN]
        /\ current \in [Threads -> Messages \cup {NoMessage}]
    BY DEF Init
  <2>4. pc \in [Threads -> RunPcs \cup CallPcs \cup {"idle", "unborn", "dead"}]
    BY DEF Init
  <2>5. batch \in [Threads -> Seq(Messages)]
    <3>1. <<>> \in Seq(Messages)
      OBVIOUS
    <3> QED
      BY <3>1 DEF Init
  <2> QED
    BY <2>1, <2>2, <2>3, <2>4, <2>5, <2>6 DEF TypeOK
<1>2. CountInv
  BY <1>p DEF Init, CountInv, NoTimeoutSkipped
<1>3. OneLoopInv
  BY <1>p DEF Init, OneLoopInv
<1>4. HandlerInv
  BY <1>p DEF HandlerInv, HandlerPcs
<1>5. BatchInv
  BY DEF Init, BatchInv
<1>6. CallInv
  BY DEF Init, CallInv
<1> QED
  BY <1>1, <1>2, <1>3, <1>4, <1>5, <1>6 DEF DispatcherInv

\* Every step of every thread, of the native client and of the collector
\* keeps it.
LEMMA NextInv == DispatcherInv /\ [Next]_vars => DispatcherInv'
<1> SUFFICES ASSUME DispatcherInv, [Next]_vars PROVE DispatcherInv'
  OBVIOUS
<1>0. TypeOK /\ CountInv /\ OneLoopInv /\ HandlerInv /\ BatchInv /\ CallInv
  BY DEF DispatcherInv
<1>1. CASE Next
  <2>1. CountInv'
    BY <1>0, <1>1, CountStep
  <2>2. TypeOK'
    BY <1>0, <1>1, <2>1, TypeStep
  <2>3. OneLoopInv' /\ HandlerInv' /\ BatchInv' /\ CallInv'
    BY <1>0, <1>1, OneLoopStep, HandlerStep, BatchStep, CallStep
  <2> QED
    BY <2>1, <2>2, <2>3 DEF DispatcherInv
<1>2. CASE UNCHANGED vars
  <2>1. /\ UNCHANGED <<running, thread, dispatching, close_after_dispatch, reported_timeouts>>
        /\ UNCHANGED <<closed, queue, timeouts, status, pc, batch, current, call, joining, raised, count>>
        /\ UNCHANGED <<reports, disturbed>>
    BY <1>2 DEF vars, instanceVars, nativeVars, localVars, historyVars
  <2>2. TypeOK'
    BY <1>0, <2>1 DEF TypeOK
  <2>3. CountInv' /\ HandlerInv' /\ BatchInv' /\ CallInv'
    BY <1>0, <2>1 DEF CountInv, NoTimeoutSkipped, HandlerInv, BatchInv, CallInv
  <2>4. OneLoopInv'
    BY <1>0, <2>1 DEF OneLoopInv, InLoop
  <2> QED
    BY <2>2, <2>3, <2>4 DEF DispatcherInv
<1> QED
  BY <1>1, <1>2

\* The inductive invariant of Client#run, #start, #stop and #close.
THEOREM DispatcherInvariant == Spec => []DispatcherInv
<1>1. Init => DispatcherInv
  BY InitInv
<1>2. DispatcherInv /\ [Next]_vars => DispatcherInv'
  BY NextInv
<1> QED
  BY <1>1, <1>2, PTL DEF Spec

\* report_timeouts calls the on_timeout hook once for every timeout the
\* watchdog counted: what a loop remembers was reported, however many loops
\* there are, and while one loop runs at a time and no hook raises, nothing
\* is reported twice.
THEOREM TimeoutsReported == Spec => []ReportingInv
<1>1. DispatcherInv => ReportingInv
  <2> SUFFICES ASSUME DispatcherInv PROVE ReportingInv
    OBVIOUS
  <2>1. TypeOK /\ CountInv /\ OneLoopInv
    BY DEF DispatcherInv
  <2>2. NoTimeoutSkipped
    BY <2>1 DEF CountInv
  <2>3. TimeoutsReportedOnce
    <3> SUFFICES ASSUME ~disturbed PROVE reports <= timeouts
      BY DEF TimeoutsReportedOnce
    <3>1. /\ reported_timeouts <= timeouts
          /\ \A t \in Threads : count[t] <= timeouts
      BY <2>1 DEF CountInv
    <3>2. CASE \E t \in Threads : pc[t] = "reported"
      BY <2>1, <3>1, <3>2 DEF OneLoopInv
    <3>3. CASE \A t \in Threads : pc[t] # "reported"
      BY <2>1, <3>1, <3>3 DEF OneLoopInv
    <3> QED
      BY <3>2, <3>3
  <2> QED
    BY <2>1, <2>2, <2>3 DEF ReportingInv
<1> QED
  BY <1>1, DispatcherInvariant, PTL

\* batch.each takes the messages of the array one by one.
LEMMA HeadOrTail ==
  ASSUME NEW q \in Seq(Messages), NEW m \in Elements(q)
  PROVE  q # <<>> /\ (m = Head(q) \/ m \in Elements(Tail(q)))
<1>1. PICK k \in 1 .. Len(q) : m = q[k]
  BY DEF Elements
<1>2. q # <<>> /\ Len(q) \in Nat \ {0}
  BY <1>1
<1>3. CASE k = 1
  BY <1>1, <1>2, <1>3
<1>4. CASE k # 1
  <2>1. k - 1 \in 1 .. Len(Tail(q)) /\ Tail(q)[k - 1] = q[k]
    BY <1>1, <1>2, <1>4
  <2> QED
    BY <1>1, <1>2, <2>1 DEF Elements
<1> QED
  BY <1>3, <1>4

\* A drained message leaves the batch of its loop only into #dispatch, or by
\* the exception that ends this loop.
LEMMA BatchKept ==
  ASSUME TypeOK, BatchInv, Next, NEW u \in Threads, NEW m \in Elements(batch[u])
  PROVE  m \in Elements(batch'[u]) \/ current'[u] = m \/ LeftByException(u)
<1>t. /\ current \in [Threads -> Messages \cup {NoMessage}] /\ batch \in [Threads -> Seq(Messages)]
      /\ batch[u] \in Seq(Messages)
  BY DEF TypeOK
<1>n. batch[u] # <<>> /\ (m = Head(batch[u]) \/ m \in Elements(Tail(batch[u])))
  BY <1>t, HeadOrTail
<1>1. CASE Each(u)
  <2>1. current'[u] = Head(batch[u]) /\ batch'[u] = Tail(batch[u])
    BY <1>1, <1>t, <1>n DEF Each
  <2> QED
    BY <1>n, <2>1
<1>2. CASE Ensure(u)
  BY <1>2, <1>n DEF Ensure, BatchInv, DispatchPcs, CallPcs, LeftByException
<1>3. ~Drain(u)
  BY <1>n DEF Drain, BatchInv, DispatchPcs, CallPcs
<1>4. ASSUME ~Each(u), ~Ensure(u) PROVE batch'[u] = batch[u]
  <2>1. \A t \in Threads : (Drain(t) \/ Each(t) \/ Ensure(t)) /\ u # t => batch'[u] = batch[u]
    BY <1>t DEF Drain, Each, Ensure
  <2> QED
    BY <2>1, <1>3, <1>4, BatchFrame
<1> QED
  BY <1>1, <1>2, <1>4

\* Every drained message enters #dispatch of the loop that drained it: a stop
\* or a close in the middle of batch.each does not give it up, nor does what
\* happens to another loop, but only an exception that leaves this #run.
THEOREM AbandonedByException == Spec => AbandonedOnlyByException
<1> DEFINE OnlyByException ==
      /\ \A t \in Threads : \A m \in Elements(batch[t]) :
           m \in Elements(batch'[t]) \/ current'[t] = m \/ LeftByException(t)
      /\ \A m \in Messages : status[m] # "abandoned" /\ status'[m] = "abandoned" =>
           \E t \in Threads : m \in Elements(batch[t]) /\ LeftByException(t)
<1>1. DispatcherInv /\ [Next]_vars => [OnlyByException]_vars
  <2> SUFFICES ASSUME DispatcherInv, Next PROVE OnlyByException
    OBVIOUS
  <2>0. TypeOK /\ BatchInv
    BY DEF DispatcherInv
  <2>1. \A t \in Threads : \A m \in Elements(batch[t]) :
          m \in Elements(batch'[t]) \/ current'[t] = m \/ LeftByException(t)
    BY <2>0, BatchKept
  <2>2. ASSUME NEW m \in Messages, status[m] # "abandoned", status'[m] = "abandoned"
        PROVE  \E t \in Threads : m \in Elements(batch[t]) /\ LeftByException(t)
    <3>1. ~UNCHANGED status
      BY <2>2
    <3>2. ASSUME NEW S, NEW x \in {"queued", "drained", "held", "released"}, SetStatus(S, x) PROVE FALSE
      BY <2>2, <3>2 DEF SetStatus
    <3>3. PICK t \in Threads : Ensure(t)
      BY <3>1, <3>2, AbandonFrame
    <3>4. m \in Elements(batch[t])
      BY <2>2, <3>3 DEF Ensure, SetStatus
    <3>5. batch[t] # <<>>
      BY <3>4 DEF Elements
    <3>6. pc[t] = "ensure"
      BY <3>3 DEF Ensure
    <3>7. LeftByException(t)
      BY <2>0, <3>5, <3>6 DEF BatchInv, DispatchPcs, CallPcs, LeftByException
    <3> QED
      BY <3>4, <3>7
  <2> QED
    BY <2>1, <2>2
<1>2. Spec => [][OnlyByException]_vars
  BY <1>1, DispatcherInvariant, PTL DEF Spec
<1> QED
  BY <1>2 DEF AbandonedOnlyByException

\* #close of a caller returns from a closed client, whatever other threads
\* do, unless the join raised the exception that ended the dispatcher.
THEOREM CloseLeavesItClosed == Spec => ClosedUnlessJoinRaised
<1> DEFINE Closes ==
      \A t \in Callers : call[t] = "close" /\ call'[t] = "none"
                           => closed' \/ (pc[t] = "joining" /\ raised[joining[t]])
<1>1. DispatcherInv /\ [Next]_vars => [Closes]_vars
  <2> SUFFICES ASSUME DispatcherInv, Next, NEW t \in Callers, call[t] = "close", call'[t] = "none"
               PROVE  closed' \/ (pc[t] = "joining" /\ raised[joining[t]])
    OBVIOUS
  <2>0. /\ TypeOK /\ CallInv /\ t \in Threads
        /\ call \in [Threads -> {"none", "stop", "close"}]
    BY DEF DispatcherInv, TypeOK, Threads
  <2>1. ~UNCHANGED call
    OBVIOUS
  <2>2. PICK u \in Threads : \/ CallStop(u) \/ CallClose(u) \/ JoinNobody(u) \/ Joined(u) \/ JoinRaises(u)
                             \/ CloseNative(u) \/ AssignThread(u)
    BY <2>1, CallFrame
  <2>3. CASE CallStop(u) \/ CallClose(u)
    BY <2>0, <2>1, <2>3 DEF CallStop, CallClose
  <2>4. CASE JoinNobody(u) \/ Joined(u)
    BY <2>0, <2>1, <2>4 DEF JoinNobody, Joined, AfterStop, CallDone
  <2>5. CASE JoinRaises(u)
    BY <2>0, <2>1, <2>5 DEF JoinRaises, CallDone
  <2>6. CASE CloseNative(u)
    BY <2>6 DEF CloseNative, NativeCloseClient
  <2>7. CASE AssignThread(u)
    <3>1. pc[u] = "assign" /\ (u = t)
      BY <2>0, <2>1, <2>7 DEF AssignThread, CallDone
    <3> QED
      BY <2>0, <3>1 DEF CallInv, StopPcs
  <2> QED
    BY <2>2, <2>3, <2>4, <2>5, <2>6, <2>7
<1>2. Spec => [][Closes]_vars
  BY <1>1, DispatcherInvariant, PTL DEF Spec
<1> QED
  BY <1>2 DEF ClosedUnlessJoinRaised
=============================================================================
