----------------------------- MODULE Dispatcher -----------------------------
(***************************************************************************)
(* Client#run, #start, #stop, #close and #dispatch of client.rb: the       *)
(* threads of a Ruby program and the instance variables they share.        *)
(*                                                                         *)
(* Ruby may switch threads between any two steps.  A call of a C function  *)
(* is one step: it keeps the GVL.  The native client is the one of         *)
(* Delivery.tla, reduced to what Ruby sees of it: a queue of messages,     *)
(* whether it is closed, and how many timeouts it counted.                 *)
(*                                                                         *)
(* A thread's pc is the next line it executes:                             *)
(*   idle     the program has not called a method (callers only)           *)
(*   unborn, dead   before Thread.new, after the end (workers only)        *)
(*   run, open, while, wait, drain, each, report, reporting,               *)
(*            reported, ensure   in #run                                   *)
(*   handler, rescue, auto_release, end_dispatch   in #dispatch            *)
(*   spawn, assign   in #start                                             *)
(*   stop, join, joining, native_close   in #stop and #close               *)
(***************************************************************************)
EXTENDS Integers, Sequences, FiniteSets

CONSTANTS
  Callers,          \* threads of the program
  Workers,          \* threads that #start may create
  Calls,            \* the methods each caller uses
  HandlerCalls,     \* the methods the handlers use
  RaisingHooks,     \* of "error" and "timeout": hooks that may raise
  MessageCount,     \* messages that arrive
  BatchMax,         \* the default maximum of __drain
  MaxTimeouts,      \* timeouts the watchdog may count
  MaxEvents,        \* messages and timeouts, together
  None

Threads == Callers \cup Workers
Messages == 1 .. MessageCount

ASSUME DispatcherAssumption ==
  /\ Callers \cap Workers = {} /\ None \notin Threads
  /\ MessageCount \in Nat /\ BatchMax \in Nat \ {0} /\ MaxTimeouts \in Nat
  /\ MaxEvents \in Nat

VARIABLES
  \* the instance variables
  running, thread, dispatching, close_after_dispatch, reported_timeouts,
  \* the native client
  closed, queue, timeouts,
  status,           \* of each message
  \* the threads
  pc,
  batch, current,   \* the rest of the drained array; the message in #dispatch
  call, joining,    \* "stop" or "close" in progress; the thread it waits for
  raised,           \* an exception leaves #run
  count,            \* local of report_timeouts
  reports,          \* calls of the on_timeout hook
  disturbed         \* two loops ran at once, or an on_timeout hook raised

instanceVars == <<running, thread, dispatching, close_after_dispatch, reported_timeouts>>
nativeVars == <<closed, queue, timeouts, status>>
localVars == <<batch, current, call, joining, raised, count>>
historyVars == <<reports, disturbed>>
vars == <<instanceVars, nativeVars, pc, localVars, historyVars>>

NoMessage == 0

Init ==
  /\ running = FALSE /\ thread = None /\ dispatching = FALSE
  /\ close_after_dispatch = FALSE /\ reported_timeouts = 0
  /\ closed = FALSE /\ queue = <<>> /\ timeouts = 0 /\ reports = 0 /\ disturbed = FALSE
  /\ status = [m \in Messages |-> "unsent"]
  /\ pc = [t \in Threads |-> IF t \in Callers THEN "idle" ELSE "unborn"]
  /\ batch = [t \in Threads |-> <<>>]
  /\ current = [t \in Threads |-> NoMessage]
  /\ call = [t \in Threads |-> "none"]
  /\ joining = [t \in Threads |-> None]
  /\ raised = [t \in Threads |-> FALSE]
  /\ count = [t \in Threads |-> 0]

\* The lines of #run and #dispatch.
LoopPcs == {"open", "while", "wait", "drain", "each", "report", "reporting", "reported", "ensure",
            "handler", "rescue", "auto_release", "end_dispatch"}

\* A thread is in #run, perhaps in a call of one of its handlers.
InLoop(t) == pc[t] \in LoopPcs \/ current[t] # NoMessage

Goto(t, l) == pc' = [pc EXCEPT ![t] = l]

\* An exception that nothing in #run or #dispatch rescues.
Raise(t, l) == raised' = [raised EXCEPT ![t] = TRUE] /\ Goto(t, l)

Elements(s) == {s[k] : k \in 1 .. Len(s)}

SetStatus(S, x) == status' = [m \in Messages |-> IF m \in S THEN x ELSE status[m]]

\* __native_close: what is queued is answered and released.
NativeCloseClient ==
  /\ closed' = TRUE
  /\ queue' = <<>>
  /\ SetStatus(Elements(queue), "released")
  /\ UNCHANGED timeouts
-----------------------------------------------------------------------------
(***************************************************************************)
(* The native client and the garbage collector.                            *)
(***************************************************************************)
\* The bound on what the native client does.
MoreEvents ==
  timeouts + Cardinality({m \in Messages : status[m] # "unsent"}) < MaxEvents

Arrive(m) ==
  /\ ~closed /\ MoreEvents
  /\ status[m] = "unsent" /\ \A k \in 1 .. m - 1 : status[k] # "unsent"
  /\ queue' = Append(queue, m)
  /\ SetStatus({m}, "queued")
  /\ UNCHANGED <<instanceVars, closed, timeouts, pc, localVars, historyVars>>

CountTimeout ==
  /\ ~closed /\ timeouts < MaxTimeouts /\ MoreEvents
  /\ timeouts' = timeouts + 1
  /\ UNCHANGED <<instanceVars, closed, queue, status, pc, localVars, historyVars>>

\* message_free of a message nobody refers to any more.
CollectGarbage(m) ==
  /\ status[m] = "abandoned"
  /\ SetStatus({m}, "released")
  /\ UNCHANGED <<instanceVars, closed, queue, timeouts, pc, localVars, historyVars>>
-----------------------------------------------------------------------------
(***************************************************************************)
(* #run.                                                                   *)
(***************************************************************************)
RunBegin(t) ==
  /\ pc[t] = "run"
  /\ running' = TRUE
  /\ disturbed' = (disturbed \/ \E u \in Threads : InLoop(u))
  /\ Goto(t, "open")
  /\ UNCHANGED <<thread, dispatching, close_after_dispatch, reported_timeouts, nativeVars,
                 localVars, reports>>

\* __wakeup_fd raises on a closed client.
OpenWakeup(t) ==
  /\ pc[t] = "open"
  /\ IF closed THEN Raise(t, "ensure") ELSE Goto(t, "while") /\ UNCHANGED raised
  /\ UNCHANGED <<instanceVars, nativeVars, batch, current, call, joining, count, historyVars>>


While(t) ==
  /\ pc[t] = "while"
  /\ Goto(t, IF running /\ ~closed THEN "wait" ELSE "ensure")
  /\ UNCHANGED <<instanceVars, nativeVars, localVars, historyVars>>

\* wait_readable(0.1) returns, if not for a wakeup then by its timeout.
WaitReadable(t) ==
  /\ pc[t] = "wait"
  /\ Goto(t, "drain")
  /\ UNCHANGED <<instanceVars, nativeVars, localVars, historyVars>>

DrainClosed(t) ==
  /\ pc[t] = "drain"
  /\ closed
  /\ Raise(t, "ensure")
  /\ UNCHANGED <<instanceVars, nativeVars, batch, current, call, joining, count, historyVars>>

Drain(t) ==
  LET n == IF Len(queue) < BatchMax THEN Len(queue) ELSE BatchMax
      taken == SubSeq(queue, 1, n)
  IN
  /\ pc[t] = "drain"
  /\ ~closed
  /\ batch' = [batch EXCEPT ![t] = taken]
  /\ queue' = SubSeq(queue, n + 1, Len(queue))
  /\ SetStatus(Elements(taken), "drained")
  /\ Goto(t, "each")
  /\ UNCHANGED <<instanceVars, closed, timeouts, current, call, joining, raised, count, historyVars>>

\* Variant: a stopped dispatcher leaves the loop over the batch.
EachWhileRunning(t) ==
  /\ pc[t] = "each"
  /\ IF running /\ batch[t] # <<>>
       THEN /\ current' = [current EXCEPT ![t] = Head(batch[t])]
            /\ batch' = [batch EXCEPT ![t] = Tail(@)]
            /\ dispatching' = TRUE
            /\ Goto(t, "handler")
       ELSE Goto(t, "report") /\ UNCHANGED <<current, batch, dispatching>>
  /\ UNCHANGED <<running, thread, close_after_dispatch, reported_timeouts, nativeVars, call,
                 joining, raised, count, historyVars>>

\* The next message of the batch enters #dispatch.
Each(t) ==
  /\ pc[t] = "each"
  /\ IF batch[t] # <<>>
       THEN /\ current' = [current EXCEPT ![t] = Head(batch[t])]
            /\ batch' = [batch EXCEPT ![t] = Tail(@)]
            /\ dispatching' = TRUE
            /\ Goto(t, "handler")
       ELSE Goto(t, "report") /\ UNCHANGED <<current, batch, dispatching>>
  /\ UNCHANGED <<running, thread, close_after_dispatch, reported_timeouts, nativeVars, call,
                 joining, raised, count, historyVars>>

ReportTimeouts(t) ==
  /\ pc[t] = "report"
  /\ count' = [count EXCEPT ![t] = timeouts]
  /\ Goto(t, "reporting")
  /\ UNCHANGED <<instanceVars, nativeVars, batch, current, call, joining, raised, historyVars>>

\* (count - @reported_timeouts).times: none if another loop reported more.
Unreported(t) == IF count[t] > reported_timeouts THEN count[t] - reported_timeouts ELSE 0

\* n calls of the on_timeout hook.  The history counts up to MaxTimeouts + 1,
\* one more than can ever be due.
CallHook(n) == reports' = IF reports + n > MaxTimeouts THEN MaxTimeouts + 1 ELSE reports + n

ReportHooks(t) ==
  /\ pc[t] = "reporting"
  /\ CallHook(Unreported(t))
  /\ Goto(t, "reported")
  /\ UNCHANGED <<instanceVars, nativeVars, localVars, disturbed>>

\* The local variable is gone when report_timeouts is left.
ForgetCount(t) == count' = [count EXCEPT ![t] = 0]

\* Variant: the counter is read again.
ReportDoneRereads(t) ==
  /\ pc[t] = "reported"
  /\ reported_timeouts' = timeouts
  /\ ForgetCount(t)
  /\ Goto(t, "while")
  /\ UNCHANGED <<running, thread, dispatching, close_after_dispatch, nativeVars, batch, current, call,
                 joining, raised, historyVars>>

ReportDone(t) ==
  /\ pc[t] = "reported"
  /\ reported_timeouts' = count[t]
  /\ ForgetCount(t)
  /\ Goto(t, "while")
  /\ UNCHANGED <<running, thread, dispatching, close_after_dispatch, nativeVars, batch, current, call,
                 joining, raised, historyVars>>

\* One of the calls raises.
ReportRaises(t) ==
  /\ pc[t] = "reporting"
  /\ "timeout" \in RaisingHooks
  /\ \E n \in 1 .. Unreported(t) : CallHook(n)
  /\ disturbed' = TRUE
  /\ ForgetCount(t)
  /\ Raise(t, "ensure")
  /\ UNCHANGED <<instanceVars, nativeVars, batch, current, call, joining>>

\* The end of #run.  What an exception left of the batch is garbage now.
Ensure(t) ==
  /\ pc[t] = "ensure"
  /\ running' = FALSE
  /\ SetStatus(Elements(batch[t]), "abandoned")
  /\ batch' = [batch EXCEPT ![t] = <<>>]
  /\ raised' = [raised EXCEPT ![t] = @ /\ t \in Workers]
  /\ Goto(t, IF t \in Callers THEN "idle" ELSE "dead")
  /\ UNCHANGED <<thread, dispatching, close_after_dispatch, reported_timeouts, closed, queue,
                 timeouts, current, call, joining, count, historyVars>>
-----------------------------------------------------------------------------
(***************************************************************************)
(* #dispatch.                                                              *)
(***************************************************************************)
HandlerReturns(t) ==
  /\ pc[t] = "handler"
  /\ Goto(t, "auto_release")
  /\ UNCHANGED <<instanceVars, nativeVars, localVars, historyVars>>

HandlerRaises(t) ==
  /\ pc[t] = "handler"
  /\ Goto(t, "rescue")
  /\ UNCHANGED <<instanceVars, nativeVars, localVars, historyVars>>

\* The handler calls retain!.
HandlerRetains(t) ==
  /\ pc[t] = "handler"
  /\ status[current[t]] = "drained"
  /\ SetStatus({current[t]}, "held")
  /\ UNCHANGED <<instanceVars, closed, queue, timeouts, pc, localVars, historyVars>>

\* The handler calls release!.
HandlerReleases(t) ==
  /\ pc[t] = "handler"
  /\ status[current[t]] # "released"
  /\ SetStatus({current[t]}, "released")
  /\ UNCHANGED <<instanceVars, closed, queue, timeouts, pc, localVars, historyVars>>

\* The program calls release! on a message it was handed.
ReleaseHeld(m) ==
  /\ status[m] = "held"
  /\ SetStatus({m}, "released")
  /\ UNCHANGED <<instanceVars, closed, queue, timeouts, pc, localVars, historyVars>>

\* Message#auth? raises on a released message; otherwise the default answer
\* and the on_error hook, which may raise itself.
Rescue(t) ==
  /\ pc[t] = "rescue"
  /\ \/ status[current[t]] = "released" /\ Raise(t, "auto_release")
     \/ /\ status[current[t]] # "released"
        /\ \/ Goto(t, "auto_release") /\ UNCHANGED raised
           \/ "error" \in RaisingHooks /\ Raise(t, "auto_release")
  /\ UNCHANGED <<instanceVars, nativeVars, batch, current, call, joining, count, historyVars>>

\* __auto_release! of a message that was not retained.
AutoRelease(t) ==
  /\ pc[t] = "auto_release"
  /\ SetStatus({current[t]} \cap {m \in Messages : status[m] = "drained"}, "released")
  /\ current' = [current EXCEPT ![t] = NoMessage]
  /\ Goto(t, "end_dispatch")
  /\ UNCHANGED <<instanceVars, closed, queue, timeouts, batch, call, joining, raised, count,
                 historyVars>>

AfterDispatch(t) == Goto(t, IF raised[t] THEN "ensure" ELSE "each")

\* Variant: the close is not in the ensure clause.
EndDispatchUnlessRaised(t) ==
  /\ pc[t] = "end_dispatch"
  /\ dispatching' = FALSE
  /\ IF close_after_dispatch /\ ~raised[t]
       THEN close_after_dispatch' = FALSE /\ NativeCloseClient
       ELSE UNCHANGED <<close_after_dispatch, nativeVars>>
  /\ AfterDispatch(t)
  /\ UNCHANGED <<running, thread, reported_timeouts, localVars, historyVars>>

\* The close that a handler asked for.
EndDispatch(t) ==
  /\ pc[t] = "end_dispatch"
  /\ dispatching' = FALSE
  /\ IF close_after_dispatch
       THEN close_after_dispatch' = FALSE /\ NativeCloseClient
       ELSE UNCHANGED <<close_after_dispatch, nativeVars>>
  /\ AfterDispatch(t)
  /\ UNCHANGED <<running, thread, reported_timeouts, localVars, historyVars>>
-----------------------------------------------------------------------------
(***************************************************************************)
(* #start, #stop and #close, called by the program or by a handler.        *)
(***************************************************************************)
Alive(w) == w # None /\ pc[w] \notin {"unborn", "dead"}

\* #start is not called when no worker would be left for it.
Startable ==
  Cardinality({w \in Workers : pc[w] = "unborn"}) > Cardinality({t \in Threads : pc[t] = "spawn"})

Ready(t, method) ==
  \/ pc[t] = "idle" /\ method \in Calls[t]
  \/ pc[t] = "handler" /\ method \in HandlerCalls

\* Back in the program, or in the handler.
CallDone(t, inHandler) ==
  /\ call' = [call EXCEPT ![t] = "none"]
  /\ joining' = [joining EXCEPT ![t] = None]
  /\ Goto(t, IF current[t] = NoMessage THEN "idle" ELSE inHandler)

CallRun(t) ==
  /\ pc[t] = "idle" /\ "run" \in Calls[t]
  /\ Goto(t, "run")
  /\ UNCHANGED <<instanceVars, nativeVars, localVars, historyVars>>

\* #start returns at once if @thread is alive.
CallStart(t) ==
  /\ Ready(t, "start") /\ Startable
  /\ ~Alive(thread)
  /\ Goto(t, "spawn")
  /\ UNCHANGED <<instanceVars, nativeVars, localVars, historyVars>>

\* Thread.new: the new thread may run before @thread is assigned.
Spawn(t, w) ==
  /\ pc[t] = "spawn" /\ pc[w] = "unborn"
  /\ pc' = [pc EXCEPT ![t] = "assign", ![w] = "run"]
  /\ joining' = [joining EXCEPT ![t] = w]
  /\ UNCHANGED <<instanceVars, nativeVars, batch, current, call, raised, count, historyVars>>

AssignThread(t) ==
  /\ pc[t] = "assign"
  /\ thread' = joining[t]
  /\ CallDone(t, "handler")
  /\ UNCHANGED <<running, dispatching, close_after_dispatch, reported_timeouts, nativeVars, batch,
                 current, raised, count, historyVars>>

CallStop(t) ==
  /\ Ready(t, "stop")
  /\ call' = [call EXCEPT ![t] = "stop"]
  /\ Goto(t, "stop")
  /\ UNCHANGED <<instanceVars, nativeVars, batch, current, joining, raised, count, historyVars>>

\* #close in a handler of @thread is put off to the end of the dispatch.
CallClose(t) ==
  /\ Ready(t, "close")
  /\ IF thread = t /\ dispatching
       THEN /\ running' = FALSE
            /\ close_after_dispatch' = TRUE
            /\ UNCHANGED <<call, pc>>
       ELSE /\ call' = [call EXCEPT ![t] = "close"]
            /\ Goto(t, "stop")
            /\ UNCHANGED <<running, close_after_dispatch>>
  /\ UNCHANGED <<thread, dispatching, reported_timeouts, nativeVars, batch, current, joining,
                 raised, count, historyVars>>

\* @running = false and __wake.
StopRunning(t) ==
  /\ pc[t] = "stop"
  /\ running' = FALSE
  /\ Goto(t, "join")
  /\ UNCHANGED <<thread, dispatching, close_after_dispatch, reported_timeouts, nativeVars,
                 localVars, historyVars>>

\* Variant: a close that had to wait returns like a stop.
AfterStopReturns(t) ==
  IF call[t] = "close" /\ joining[t] = None THEN Goto(t, "native_close") /\ UNCHANGED <<call, joining>>
                                             ELSE CallDone(t, "handler")

AfterStop(t) ==
  IF call[t] = "close" THEN Goto(t, "native_close") /\ UNCHANGED <<call, joining>>
                       ELSE CallDone(t, "handler")

\* There is no other thread to join.
JoinNobody(t) ==
  /\ pc[t] = "join"
  /\ thread \in {None, t}
  /\ AfterStop(t)
  /\ UNCHANGED <<instanceVars, nativeVars, batch, current, raised, count, historyVars>>

JoinThread(t) ==
  /\ pc[t] = "join"
  /\ thread \notin {None, t}
  /\ joining' = [joining EXCEPT ![t] = thread]
  /\ Goto(t, "joining")
  /\ UNCHANGED <<instanceVars, nativeVars, batch, current, call, raised, count, historyVars>>

Joined(t) ==
  /\ pc[t] = "joining"
  /\ pc[joining[t]] = "dead" /\ ~raised[joining[t]]
  /\ AfterStop(t)
  /\ UNCHANGED <<instanceVars, nativeVars, batch, current, raised, count, historyVars>>

\* Thread#join raises the exception that ended the thread.
JoinRaises(t) ==
  /\ pc[t] = "joining"
  /\ pc[joining[t]] = "dead" /\ raised[joining[t]]
  /\ CallDone(t, "rescue")
  /\ UNCHANGED <<instanceVars, nativeVars, batch, current, raised, count, historyVars>>

CloseNative(t) ==
  /\ pc[t] = "native_close"
  /\ NativeCloseClient
  /\ CallDone(t, "handler")
  /\ UNCHANGED <<instanceVars, batch, current, raised, count, historyVars>>
-----------------------------------------------------------------------------
\* What a thread does once a method was called; Ruby schedules it.
Step(t) ==
  \/ RunBegin(t) \/ OpenWakeup(t) \/ While(t) \/ WaitReadable(t) \/ DrainClosed(t) \/ Drain(t)
  \/ Each(t) \/ ReportTimeouts(t) \/ ReportHooks(t) \/ ReportRaises(t) \/ ReportDone(t) \/ Ensure(t)
  \/ Rescue(t) \/ AutoRelease(t) \/ EndDispatch(t)
  \/ AssignThread(t) \/ StopRunning(t) \/ JoinNobody(t) \/ JoinThread(t) \/ Joined(t)
  \/ JoinRaises(t) \/ CloseNative(t)
  \/ \E w \in Workers : Spawn(t, w)

HandlerEnds(t) == HandlerReturns(t) \/ HandlerRaises(t)

\* What the program and its handlers may do, or not.
Program(t) ==
  \/ CallRun(t) \/ CallStart(t) \/ CallStop(t) \/ CallClose(t)
  \/ HandlerEnds(t) \/ HandlerRetains(t) \/ HandlerReleases(t)

Next ==
  \/ \E t \in Threads : Step(t) \/ Program(t)
  \/ \E m \in Messages : Arrive(m) \/ ReleaseHeld(m) \/ CollectGarbage(m)
  \/ CountTimeout

Spec == Init /\ [][Next]_vars

\* Ruby runs every thread that can run; a handler returns in the end.
FairSpec ==
  /\ Spec
  /\ \A t \in Threads : WF_vars(Step(t)) /\ SF_vars(HandlerEnds(t))
-----------------------------------------------------------------------------
(***************************************************************************)
(* Properties.                                                             *)
(***************************************************************************)
RunPcs == {"run"} \cup LoopPcs
CallPcs == {"spawn", "assign", "stop", "join", "joining", "native_close"}

\* Every variable stays in its range.
TypeOK ==
  /\ running \in BOOLEAN /\ dispatching \in BOOLEAN /\ close_after_dispatch \in BOOLEAN
  /\ thread \in Workers \cup {None}
  /\ closed \in BOOLEAN /\ queue \in Seq(Messages)
  /\ timeouts \in 0 .. MaxTimeouts /\ reported_timeouts \in 0 .. MaxTimeouts
  /\ reports \in 0 .. MaxTimeouts + 1 /\ disturbed \in BOOLEAN
  /\ status \in [Messages -> {"unsent", "queued", "drained", "held", "released", "abandoned"}]
  /\ pc \in [Threads -> RunPcs \cup CallPcs \cup {"idle", "unborn", "dead"}]
  /\ batch \in [Threads -> Seq(Messages)]
  /\ current \in [Threads -> Messages \cup {NoMessage}]
  /\ call \in [Threads -> {"none", "stop", "close"}]
  /\ joining \in [Threads -> Workers \cup {None}]
  /\ raised \in [Threads -> BOOLEAN]
  /\ count \in [Threads -> 0 .. MaxTimeouts]

\* The exception that leaves a thread's own #run.
LeftByException(t) == pc[t] = "ensure" /\ raised[t]

\* Every message a loop has drained enters #dispatch of that same loop,
\* whatever stops or closes the client in the middle of the batch and
\* whatever happens to other loops; only an exception that leaves this very
\* #run gives up the rest, and nothing but that leaves a message to the
\* garbage collector.
AbandonedOnlyByException ==
  [][/\ \A t \in Threads : \A m \in Elements(batch[t]) :
          m \in Elements(batch'[t]) \/ current'[t] = m \/ LeftByException(t)
     /\ \A m \in Messages : status[m] # "abandoned" /\ status'[m] = "abandoned" =>
          \E t \in Threads : m \in Elements(batch[t]) /\ LeftByException(t)]_vars

\* No timeout is reported twice, however often the dispatcher is stopped and
\* started again between reading the counter and remembering it.  Two loops
\* at once may, and a hook that raised is called again by the next loop.
TimeoutsReportedOnce == ~disturbed => reports <= timeouts

\* No timeout is passed over: what is remembered as reported was reported,
\* also if the watchdog counts another one meanwhile, or a second loop
\* remembers its own older count.
NoTimeoutSkipped == reported_timeouts <= reports

\* Every timeout the watchdog counted is reported once by report_timeouts, and
\* none is passed over; with the type invariant.
ReportingInv == TypeOK /\ TimeoutsReportedOnce /\ NoTimeoutSkipped

\* A close that a handler asked for happens, also if the handler or a hook
\* raises afterwards.
DeferredCloseHappens == close_after_dispatch ~> closed

\* #close leaves a closed client, unless it is left by the exception that
\* ended the dispatcher and that #join raises again.
ClosedUnlessJoinRaised ==
  [][\A t \in Callers :
       call[t] = "close" /\ call'[t] = "none"
         => closed' \/ (pc[t] = "joining" /\ raised[joining[t]])]_vars

-----------------------------------------------------------------------------
(***************************************************************************)
(* What the documentation says and the code does not do.                   *)
(***************************************************************************)

\* #stop "@return [Client]": it returns.  It does not if the thread that
\* #start created sets @running after #stop has reset it.
StopReturns ==
  \A t \in Threads : pc[t] = "joining" ~> pc[t] # "joining"
=============================================================================
