------------------------------ MODULE Controls ------------------------------
(***************************************************************************)
(* The client's control methods, on Ruby threads, over its life            *)
(* (Lifecycle): the body of initialize, subscribe with its probes,         *)
(* unsubscribe, muting, and the methods that copy what Endpoint Security   *)
(* owns.                                                                   *)
(*                                                                         *)
(* A C function keeps the GVL from its check of the client to its last     *)
(* line, but for the Ruby methods it calls: threads switch between the     *)
(* calls of a Ruby method, and there.  A call on a closed client raises    *)
(* ClientError, one after a fork ForkedClientError; a call that begins     *)
(* with either changes nothing and is not an action.                       *)
(*                                                                         *)
(* call[u].at is what thread u does next:                                  *)
(*   idle                                                                  *)
(*   probe, probed   supported_event? or probe_event of the first of .todo;*)
(*                   .on is who asks: subscribe, refused or eager          *)
(*   subscribe       __subscribe(.events)                                  *)
(*   record          @subscriptions |= .events                             *)
(*   unlist          @subscriptions -= .events                             *)
(*   token           mute_process, after its check, at the token's methods *)
(*   copy            copies a set that Endpoint Security allocated         *)
(***************************************************************************)
EXTENDS Lifecycle, SequencesExt

CONSTANTS
  Users,       \* Ruby threads
  Creator,     \* the thread that calls new
  Events,      \* event types
  Available,   \* those Availability.supported_event? allows
  Requests     \* the events of a call of subscribe or unsubscribe

ASSUME ControlsAssumption ==
  /\ Creator \in Users
  /\ IsFiniteSet(Events) /\ Available \subseteq Events
  /\ Requests \subseteq SUBSET Events \ {{}}

VARIABLES
  subscriptions,  \* @subscriptions, a set
  probe,          \* @probe, the option: lazy, eager or off
  probe_cache,    \* event -> "unknown", "yes" or "no"
  call,
  stage,          \* where initialize is: mute, eager, subscribe, end
  muted,          \* Endpoint Security's mutes
  sets,           \* threads that hold a set Endpoint Security allocated
  \* History: events a failed probe may have left subscribed, and whether
  \* two threads changed the subscriptions at a time.
  leftover, overlapped

historyVars == <<leftover, overlapped>>
rubyVars == <<subscriptions, probe_cache>>
controlVars == <<rubyVars, probe, call, stage, muted, sets, historyVars>>
vars == <<lifeVars, controlVars>>

\* What the control methods never change.
fixedVars == <<probe, flagVars, readyVars, fields, live, mutex, waitVars, forked, client, es>>

Idle == [at |-> "idle", on |-> "none", todo |-> <<>>, events |-> {}]
At(l, o, t, e) == [at |-> l, on |-> o, todo |-> t, events |-> e]
Mutes == {"path", "process"}
Changing == {"probe", "probed", "subscribe", "record", "unlist"}

Init ==
  /\ LifeInit
  /\ subscriptions = {} /\ probe_cache = [e \in Events |-> "unknown"]
  /\ call = [u \in Users |-> Idle] /\ stage = "mute" /\ probe \in {"lazy", "eager", "off"}
  /\ muted = {} /\ sets = {}
  /\ leftover = {} /\ overlapped = FALSE

\* Ruby threads run when no C function does.
CanRun == pc["ruby"] = "none" /\ ~forked

\* Who may call: everybody once new has returned.
CanCall(u) == CanRun /\ object = "usable" /\ call[u] = Idle

Continue(u, c) == call' = [call EXCEPT ![u] = c]

\* Return from a method.
Return(u) == Continue(u, Idle) /\ UNCHANGED <<pc, object, why>>

\* Variant: initialize without its ensure.
RaiseNoEnsure(u) ==
  /\ Continue(u, Idle)
  /\ object' = IF object = "initializing" THEN "raised" ELSE object
  /\ UNCHANGED <<pc, why>>

\* An exception leaves the method; in initialize its ensure closes the client.
Raise(u) ==
  /\ Continue(u, Idle)
  /\ IF object = "initializing" THEN Closing("ensure", "close_end") ELSE UNCHANGED <<pc, why>>
  /\ UNCHANGED object

\* A function of Endpoint Security is called with client->client: NULL is
\* refused, a deleted client is a use after free.
UseClient == misused' = misused \cup (IF client /\ es = "deleted" THEN {"client"} ELSE {})

\* Two threads change the subscriptions.
Overlap(u) ==
  overlapped' = (overlapped \/ \E v \in Users \ {u} : call[v].at \in Changing)

-----------------------------------------------------------------------------
(***************************************************************************)
(* subscribe, and the probes.                                              *)
(***************************************************************************)
\* The thread that calls new is alone with the object until it returns.
InInitialize(u, at) ==
  CanRun /\ u = Creator /\ object = "initializing" /\ call[u] = Idle /\ stage = at

\* subscribe(*events): what is not subscribed goes through supported_event?,
\* in the order the program chose.
Subscribe(u, events) ==
  /\ CanCall(u) \/ InInitialize(u, "subscribe")
  /\ LET new == events \ subscriptions
     IN  \E list \in SetToSeqs(new) : Continue(u, At("probe", "subscribe", list, new))
  /\ stage' = IF object = "initializing" THEN "end" ELSE stage
  /\ Overlap(u)
  /\ UNCHANGED <<fixedVars, pc, object, why, misused, subscribed, rubyVars, muted, sets, leftover>>

\* What subscribe knows of e without a probe.
KnownUnsupported(u, e) ==
  call[u].on = "subscribe" /\ (e \notin Available \/ (probe # "off" /\ probe_cache[e] = "no"))

KnownSupported(u, e) ==
  call[u].on = "subscribe" /\ e \in Available /\ (probe = "off" \/ probe_cache[e] = "yes")

Probing(u, at) == CanRun /\ call[u].at = at /\ call[u].todo # <<>>

\* The call of u goes on with its next event; unsupported ones are left out.
NextEvent(u, supported) ==
  LET c == call[u]
  IN  Continue(u, At("probe", c.on, Tail(c.todo),
                     IF c.on = "subscribe" /\ ~supported THEN c.events \ {Head(c.todo)} ELSE c.events))

\* probe_event has an answer, which is cached unless it is only for the
\* message of an exception.
Answer(u, supported) ==
  /\ NextEvent(u, supported)
  /\ probe_cache' = IF call[u].on = "refused" THEN probe_cache
                    ELSE [probe_cache EXCEPT ![Head(call[u].todo)] = IF supported THEN "yes" ELSE "no"]

Known(u) ==
  /\ Probing(u, "probe")
  /\ LET e == Head(call[u].todo)
     IN  \/ KnownUnsupported(u, e) /\ NextEvent(u, FALSE)
         \/ KnownSupported(u, e) /\ NextEvent(u, TRUE)
  /\ UNCHANGED <<fixedVars, pc, object, why, misused, subscribed, rubyVars, stage, muted, sets,
                 historyVars>>

\* probe_event's __subscribe.
ProbeEvent(u) ==
  /\ Probing(u, "probe")
  /\ LET e == Head(call[u].todo)
     IN  /\ ~KnownUnsupported(u, e) /\ ~KnownSupported(u, e)
         /\ IF closed
              THEN Raise(u) /\ UNCHANGED <<misused, subscribed, probe_cache>>
              ELSE /\ UseClient
                   /\ \/ /\ subscribed' = subscribed \cup {e}
                         /\ Continue(u, [call[u] EXCEPT !.at = "probed"])
                         /\ UNCHANGED probe_cache
                      \/ Answer(u, FALSE) /\ UNCHANGED subscribed
                   /\ UNCHANGED <<pc, object, why>>
  /\ UNCHANGED <<fixedVars, subscriptions, stage, muted, sets, historyVars>>

\* Variant: the probe's subscription is left in place.
UnprobeEventSkipped(u) ==
  /\ Probing(u, "probed")
  /\ Answer(u, TRUE)
  /\ UNCHANGED <<fixedVars, pc, object, why, misused, subscribed, subscriptions, stage, muted, sets,
                 historyVars>>

\* probe_event's __unsubscribe; when it fails the event stays subscribed.
UnprobeEvent(u) ==
  /\ Probing(u, "probed")
  /\ LET e == Head(call[u].todo)
     IN  IF closed
           THEN Raise(u) /\ UNCHANGED <<misused, subscribed, probe_cache, leftover>>
           ELSE /\ UseClient
                /\ \/ /\ subscribed' = subscribed \ {e}
                      /\ Answer(u, TRUE)
                      /\ UNCHANGED leftover
                   \/ /\ leftover' = leftover \cup {e}
                      /\ Answer(u, FALSE)
                      /\ UNCHANGED subscribed
                /\ UNCHANGED <<pc, object, why>>
  /\ UNCHANGED <<fixedVars, subscriptions, stage, muted, sets, overlapped>>

\* Every event has been looked at.  subscribe may be told not to skip the
\* unsupported ones; the exception after a refusal is raised here.
ProbesDone(u) ==
  /\ CanRun /\ call[u].at = "probe" /\ call[u].todo = <<>>
  /\ CASE call[u].on = "eager" -> Return(u)
       [] call[u].on = "refused" -> Raise(u)
       [] OTHER -> \/ object = "usable" /\ Raise(u)
                   \/ IF call[u].events = {} THEN Return(u)
                      ELSE /\ Continue(u, [call[u] EXCEPT !.at = "subscribe"])
                           /\ UNCHANGED <<pc, object, why>>
  /\ UNCHANGED <<fixedVars, misused, subscribed, rubyVars, stage, muted, sets, historyVars>>

\* __subscribe; a refusal leads to a probe of each event.
NativeSubscribe(u) ==
  /\ CanRun /\ call[u].at = "subscribe"
  /\ IF closed
       THEN Raise(u) /\ UNCHANGED <<misused, subscribed>>
       ELSE /\ UseClient
            /\ \/ /\ subscribed' = subscribed \cup call[u].events
                  /\ Continue(u, [call[u] EXCEPT !.at = "record"])
               \/ /\ \E list \in SetToSeqs(call[u].events) :
                       Continue(u, At("probe", "refused", list, call[u].events))
                  /\ UNCHANGED subscribed
            /\ UNCHANGED <<pc, object, why>>
  /\ UNCHANGED <<fixedVars, rubyVars, stage, muted, sets, historyVars>>

Record(u) ==
  /\ CanRun /\ call[u].at = "record"
  /\ subscriptions' = subscriptions \cup call[u].events
  /\ Return(u)
  /\ UNCHANGED <<fixedVars, misused, subscribed, probe_cache, stage, muted, sets, historyVars>>
-----------------------------------------------------------------------------
(***************************************************************************)
(* unsubscribe and unsubscribe_all.                                        *)
(***************************************************************************)
\* The native call; its refusal raises and changes nothing.
Unsubscribe(u, S) ==
  /\ CanCall(u) /\ ~closed
  /\ UseClient
  /\ subscribed' = subscribed \ S
  /\ Continue(u, At("unlist", "none", <<>>, S))
  /\ Overlap(u)
  /\ UNCHANGED <<fixedVars, pc, object, why, rubyVars, stage, muted, sets, leftover>>

\* The list follows.
Unlist(u) ==
  /\ CanRun /\ call[u].at = "unlist"
  /\ subscriptions' = subscriptions \ call[u].events
  /\ Return(u)
  /\ UNCHANGED <<fixedVars, misused, subscribed, probe_cache, stage, muted, sets, historyVars>>
-----------------------------------------------------------------------------
(***************************************************************************)
(* Muting.                                                                 *)
(***************************************************************************)
\* __mute_path, __unmute_all_paths and __invert_muting: check and call at
\* once; they change "path".
Mute(u, k) ==
  /\ CanCall(u) /\ ~closed /\ k \in Mutes \ {"process"}
  /\ UseClient
  /\ muted' \in {muted \cup {k}, muted \ {k}} \ {muted}
  /\ UNCHANGED <<fixedVars, pc, object, why, subscribed, rubyVars, call, stage, sets, historyVars>>

\* __mute_process: the check; the token's values are then asked of Ruby.
MuteProcess(u) ==
  /\ \/ CanCall(u) /\ ~closed
     \/ InInitialize(u, "mute")
  /\ Continue(u, At("token", "none", <<>>, {}))
  /\ stage' = IF object = "initializing" THEN "eager" ELSE stage
  /\ UNCHANGED <<fixedVars, pc, object, why, misused, subscribed, rubyVars, muted, sets, historyVars>>

\* The call itself, with client->client as it is by then.
MuteProcessNative(u) ==
  /\ CanRun /\ call[u].at = "token"
  /\ UseClient
  /\ \/ client /\ Return(u) /\ muted' \in {muted \cup {"process"}, muted \ {"process"}}
     \/ Raise(u) /\ UNCHANGED muted
  /\ UNCHANGED <<fixedVars, subscribed, rubyVars, stage, sets, historyVars>>
-----------------------------------------------------------------------------
(***************************************************************************)
(* subscriptions, muted_paths and muted_processes: Endpoint Security       *)
(* allocates, Ruby methods run while it is copied, and rb_ensure gives it  *)
(* back.                                                                   *)
(***************************************************************************)
Fetch(u) ==
  /\ CanCall(u) /\ ~closed
  /\ UseClient
  /\ sets' = sets \cup {u}
  /\ Continue(u, At("copy", "none", <<>>, {}))
  /\ UNCHANGED <<fixedVars, pc, object, why, subscribed, rubyVars, stage, muted, historyVars>>

CopyRaises(u) ==
  /\ CanRun /\ call[u].at = "copy"
  /\ sets' = sets \ {u}
  /\ Raise(u)
  /\ UNCHANGED <<fixedVars, misused, subscribed, rubyVars, stage, muted, historyVars>>

CopyReturns(u) ==
  /\ CanRun /\ call[u].at = "copy"
  /\ sets' = sets \ {u}
  /\ Return(u)
  /\ UNCHANGED <<fixedVars, misused, subscribed, rubyVars, stage, muted, historyVars>>
-----------------------------------------------------------------------------
(***************************************************************************)
(* The body of initialize, after __native_initialize.                      *)
(***************************************************************************)
\* mute_self: false, no eager probe, or no subscribe option.
Skip(u) ==
  /\ \/ InInitialize(u, "mute") /\ stage' = "eager"
     \/ InInitialize(u, "eager") /\ probe # "eager" /\ stage' = "subscribe"
     \/ InInitialize(u, "subscribe") /\ stage' = "end"
  /\ UNCHANGED <<lifeVars, probe, rubyVars, call, muted, sets, historyVars>>

EagerProbe(u) ==
  /\ InInitialize(u, "eager") /\ probe = "eager"
  /\ \E list \in SetToSeqs(Available) : Continue(u, At("probe", "eager", list, {}))
  /\ stage' = "subscribe"
  /\ UNCHANGED <<lifeVars, probe, rubyVars, muted, sets, historyVars>>

Initialized(u) ==
  /\ InInitialize(u, "end")
  /\ object' = "usable"
  /\ UNCHANGED <<fixedVars, pc, why, misused, subscribed, rubyVars, call, stage, muted, sets,
                 historyVars>>
-----------------------------------------------------------------------------
(***************************************************************************)
(* The rest of the client's life.                                          *)
(***************************************************************************)
\* The end of Client#close, Client.open's ensure and a deferred close.
Close(u) ==
  /\ CanCall(u) /\ ~closed
  /\ Closing("method", "none")
  /\ UNCHANGED <<fixedVars, object, misused, subscribed, rubyVars, call, stage, muted, sets,
                 historyVars>>

\* Nobody refers to the object: no thread is in one of its methods.
Collect ==
  /\ \A u \in Users : call[u] = Idle
  /\ ClientFree
  /\ UNCHANGED controlVars

\* fork by a thread that is in none of these methods; the child has only
\* that thread, and what another one held is lost.
Fork ==
  /\ pc["ruby"] = "none" /\ ~forked /\ object \in {"allocated", "usable", "raised"}
  /\ \E u \in Users : call[u] = Idle
  /\ forked' = TRUE
  /\ call' = [u \in Users |-> Idle]
  /\ UNCHANGED <<flagVars, readyVars, resourceVars, waitVars, pc, object, why, esVars, probe, rubyVars,
                 stage, muted, sets, historyVars>>

Method(u) ==
  \/ \E events \in Requests : Subscribe(u, events) \/ Unsubscribe(u, events)
  \/ Unsubscribe(u, Events)
  \/ Known(u) \/ ProbeEvent(u) \/ UnprobeEvent(u) \/ ProbesDone(u) \/ NativeSubscribe(u) \/ Record(u)
  \/ Unlist(u)
  \/ \E k \in Mutes : Mute(u, k)
  \/ MuteProcess(u) \/ MuteProcessNative(u)
  \/ Fetch(u) \/ CopyRaises(u) \/ CopyReturns(u)
  \/ Skip(u) \/ EagerProbe(u) \/ Initialized(u)
  \/ Close(u)

Life ==
  /\ \/ RejectOptions \/ Initialize \/ Running \/ Native
     \/ \E t \in {"ruby", "native"} : CondSpurious(t)
  /\ UNCHANGED controlVars

Next == (\E u \in Users : Method(u)) \/ Life \/ Collect \/ Fork

\* The native thread runs, and a C function that was called runs on.
Fairness ==
  /\ WF_vars(Running /\ UNCHANGED controlVars)
  /\ WF_vars(Native /\ UNCHANGED controlVars)

Spec == Init /\ [][Next]_vars /\ Fairness
-----------------------------------------------------------------------------
(***************************************************************************)
(* Properties.                                                             *)
(***************************************************************************)
Calls ==
  [at : {"idle", "token", "copy"} \cup Changing, on : {"none", "subscribe", "refused", "eager"},
   todo : Seq(Events), events : SUBSET Events]

\* The type invariant, of the client's fields, Endpoint Security's side and
\* the calls under way.
TypeOK ==
  /\ {owner_pid, client, closed, watchdog_thread_started, watchdog_running, watchdog_stopped,
      client_ready, creation_result, delete_ready, forked, overlapped} \subseteq BOOLEAN
  /\ delete_errors \in 0 .. MaxDeleteErrors /\ spurious \in 0 .. MaxSpurious
  /\ fields \subseteq live /\ live \subseteq Resources
  /\ mutex \in {"none", "free", "ruby", "native"} /\ waiting \subseteq {"ruby", "native"}
  /\ object \in {"allocated", "initializing", "usable", "raised", "freed"}
  /\ es \in {"none", "live", "deleted"} /\ subscribed \subseteq Available
  /\ subscriptions \subseteq Available /\ leftover \subseteq Available
  /\ probe_cache \in [Events -> {"unknown", "yes", "no"}]
  /\ call \in [Users -> Calls]
  /\ muted \subseteq Mutes /\ sets \subseteq Users

\* Nothing is freed twice, or destroyed while a thread holds it or waits on
\* it, and no call reaches a client after es_delete_client
\* (client_initialize's error paths, client_close_native, client_free,
\* mute_process's late use of client->client).
NothingMisused == misused = {}

\* Whichever way the object ends, its thread is gone, and its Endpoint
\* Security client unless es_delete_client failed; initialize that fails in
\* its native part, and client_free, give everything back.
EndedLeavesNothing ==
  /\ object \in {"raised", "freed"} /\ ~forked =>
       /\ closed /\ ~watchdog_thread_started /\ pc["native"] \in {"unborn", "dead"}
       /\ es = "live" => delete_errors > 0
  /\ object = "raised" /\ ~client_ready => live = {}
  /\ object = "raised" /\ client_ready /\ ~creation_result => live = {}
  /\ object = "freed" => live = {} /\ fields = {}

\* A set that Endpoint Security allocated is held only while it is copied,
\* also when the copying raises (mute.c: "copied before their mandatory
\* release").
SetsReleased == ~forked => sets = {u \in Users : call[u].at = "copy"}

\* Whatever is acquired by client_initialize, by the native thread or by a
\* method is given back once, not used afterwards and not forgotten, on every
\* path through failures, exceptions, close and client_free; with the type
\* invariant.
ResourceInv == TypeOK /\ NothingMisused /\ EndedLeavesNothing /\ SetsReleased

\* client_initialize, close and client_free return, whatever the native
\* thread is doing when they wait for it (the handshakes on client_ready,
\* watchdog_stopped and delete_ready).
FunctionsReturn == pc["ruby"] # "none" ~> pc["ruby"] = "none"

\* Endpoint Security's state is changed only for a client that is open, in
\* the process that created it: not after close by a call that was already
\* past its check, and not by the child of a fork, client_free included.
ControlledOnlyWhileOpen ==
  [][subscribed' # subscribed \/ muted' # muted \/ es' # es =>
       ~forked /\ (~closed \/ es' # es)]_vars

\* When no call is under way, @subscriptions is what Endpoint Security
\* delivers, but for events a probe could not unsubscribe; as long as no two
\* threads changed it at a time.
SubscriptionsAgree ==
  /\ object = "usable" /\ ~closed /\ ~forked /\ ~overlapped
  /\ \A u \in Users : call[u].at \notin Changing
  => subscriptions \subseteq subscribed /\ subscribed \ subscriptions \subseteq leftover
=============================================================================
