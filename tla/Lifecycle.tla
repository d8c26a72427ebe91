------------------------------ MODULE Lifecycle -----------------------------
(***************************************************************************)
(* The life of an esrb_client_t: client_allocate, client_initialize with   *)
(* its failures, client_native_main on the native thread,                  *)
(* client_close_native, client_free, and a fork.                           *)
(*                                                                         *)
(* The Ruby side of these functions keeps the GVL, so that one of them     *)
(* runs at a time, beside the native thread.  What close does with the     *)
(* messages, and the watchdog with its deadlines, is in Delivery.tla.      *)
(*                                                                         *)
(* pc["ruby"] is the next line of the function that runs:                  *)
(*   none     no function runs                                             *)
(*   queue_init, watchdog_init, pipe, fcntl, pthread_create, result        *)
(*            in client_initialize                                         *)
(*   close, close_wait, close_delete, close_unlock, close_join, close_end  *)
(*            in client_close_native                                       *)
(*   free     in client_free                                               *)
(* pc["native"]: unborn, new_client, announce, announced, watch, slept,    *)
(*   delete, dead                                                          *)
(* Both: lock, check, block, wait   a loop around pthread_cond_wait        *)
(***************************************************************************)
EXTENDS Naturals, FiniteSets

CONSTANTS
  MaxDeleteErrors,     \* es_delete_client calls that may fail
  MaxSpurious          \* bound on the wakeups nobody sent, in one wait

ASSUME LifecycleAssumption == MaxDeleteErrors \in Nat /\ MaxSpurious \in Nat

VARIABLES
  \* esrb_client_t
  fields,           \* the resources it points to
  owner_pid,        \* is set
  client,           \* is not NULL
  closed, watchdog_thread_started, watchdog_running, watchdog_stopped,
  client_ready, creation_result, delete_ready, delete_errors,
  \* the process
  live,             \* the resources that exist
  mutex,            \* "none", "free", or the thread that holds it
  waiting,          \* threads in pthread_cond_wait
  spurious,         \* wakeups nobody sent, in the wait under way
  pc,
  object,           \* the Ruby object: allocated, initializing, usable, raised, freed
  why,              \* close was called by "method", "ensure" or "free"
  forked,           \* this is a child process
  misused,          \* what was freed, destroyed or used when it was not there
  \* Endpoint Security
  es, subscribed

flagVars == <<owner_pid, closed, watchdog_thread_started, watchdog_running, watchdog_stopped>>
readyVars == <<client_ready, creation_result, delete_ready, delete_errors>>
resourceVars == <<fields, live, mutex, misused>>
waitVars == <<waiting, spurious>>
objectVars == <<object, why, forked>>
esVars == <<client, es, subscribed>>
lifeVars == <<flagVars, readyVars, resourceVars, waitVars, pc, objectVars, esVars>>

Resources == {"queue", "watchdog", "pipe"}

\* client_allocate.
LifeInit ==
  /\ fields = {} /\ live = {} /\ mutex = "none" /\ misused = {}
  /\ waiting = {} /\ spurious = 0
  /\ owner_pid = FALSE /\ client = FALSE /\ closed = TRUE
  /\ watchdog_thread_started = FALSE /\ watchdog_running = FALSE /\ watchdog_stopped = FALSE
  /\ client_ready = FALSE /\ creation_result = FALSE /\ delete_ready = FALSE /\ delete_errors = 0
  /\ pc = [t \in {"ruby", "native"} |-> IF t = "ruby" THEN "none" ELSE "unborn"]
  /\ object = "allocated" /\ why = "method" /\ forked = FALSE
  /\ es = "none" /\ subscribed = {}

Goto(t, l) == pc' = [pc EXCEPT ![t] = l]

Acquire(r) ==
  /\ fields' = fields \cup {r}
  /\ live' = live \cup {r}
  /\ mutex' = IF r = "watchdog" THEN "free" ELSE mutex
  /\ UNCHANGED misused

\* What is wrong with freeing S: it is not there, or in use.
Misuse(S) ==
  (S \ live) \cup (IF "watchdog" \in S /\ (mutex # "free" \/ waiting # {}) THEN {"mutex"} ELSE {})

\* esrb_queue_destroy, esrb_watchdog_destroy and close, of what is not NULL
\* or -1.
Free(S) ==
  /\ live' = live \ (S \cap fields)
  /\ misused' = misused \cup Misuse(S \cap fields)
  /\ mutex' = IF "watchdog" \in S \cap fields THEN "none" ELSE mutex
  /\ fields' = fields \ S

\* initialize raises.
Failed == Goto("ruby", "none") /\ object' = "raised"
-----------------------------------------------------------------------------
(***************************************************************************)
(* client_initialize.                                                      *)
(***************************************************************************)
\* The options are wrong.
RejectOptions ==
  /\ object = "allocated" /\ pc["ruby"] = "none" /\ ~forked
  /\ Failed
  /\ UNCHANGED <<flagVars, readyVars, resourceVars, waitVars, why, forked, esVars>>

Initialize ==
  /\ object = "allocated" /\ pc["ruby"] = "none" /\ ~forked
  /\ object' = "initializing"
  /\ Goto("ruby", "queue_init")
  /\ UNCHANGED <<flagVars, readyVars, resourceVars, waitVars, why, forked, esVars>>

\* One resource after the other; a failure frees the earlier ones.
Step(at, r, next, earlier) ==
  /\ pc["ruby"] = at
  /\ \/ Acquire(r) /\ Goto("ruby", next) /\ UNCHANGED object
     \/ Free(earlier) /\ Failed
  /\ UNCHANGED <<flagVars, readyVars, waitVars, why, forked, esVars>>

QueueInit == Step("queue_init", "queue", "watchdog_init", {})
WatchdogInit == Step("watchdog_init", "watchdog", "pipe", {"queue"})
Pipe == Step("pipe", "pipe", "fcntl", {"watchdog", "queue"})

FcntlFails ==
  /\ pc["ruby"] = "fcntl"
  /\ Free(Resources) /\ Failed
  /\ UNCHANGED <<flagVars, readyVars, waitVars, why, forked, esVars>>

\* fcntl and the initial values.
Fcntl ==
  /\ pc["ruby"] = "fcntl"
  /\ owner_pid' = TRUE /\ closed' = FALSE
  /\ watchdog_running' = TRUE /\ watchdog_stopped' = FALSE
  /\ client_ready' = FALSE /\ creation_result' = FALSE /\ delete_ready' = FALSE /\ delete_errors' = 0
  /\ Goto("ruby", "pthread_create")
  /\ UNCHANGED <<watchdog_thread_started, resourceVars, waitVars, objectVars, esVars>>

PthreadCreateFails ==
  /\ pc["ruby"] = "pthread_create"
  /\ watchdog_running' = FALSE /\ closed' = TRUE
  /\ Free(Resources) /\ Failed
  /\ UNCHANGED <<owner_pid, watchdog_thread_started, watchdog_stopped, readyVars, waitVars, why,
                 forked, esVars>>

PthreadCreate ==
  /\ pc["ruby"] = "pthread_create"
  /\ watchdog_thread_started' = TRUE
  /\ pc' = [ruby |-> "lock", native |-> "new_client"]
  /\ UNCHANGED <<owner_pid, closed, watchdog_running, watchdog_stopped, readyVars, resourceVars,
                 waitVars, objectVars, esVars>>

Created ==
  /\ pc["ruby"] = "result" /\ creation_result
  /\ Goto("ruby", "none")
  /\ UNCHANGED <<flagVars, readyVars, resourceVars, waitVars, objectVars, esVars>>

\* es_new_client failed: pthread_join, then everything is given back.
NotCreated ==
  /\ pc["ruby"] = "result" /\ ~creation_result
  /\ pc["native"] = "dead"
  /\ watchdog_thread_started' = FALSE /\ closed' = TRUE
  /\ Free(Resources) /\ Failed
  /\ UNCHANGED <<owner_pid, watchdog_running, watchdog_stopped, readyVars, waitVars, why, forked, esVars>>
-----------------------------------------------------------------------------
(***************************************************************************)
(* while (!flag) pthread_cond_wait(...) between lock and unlock: the Ruby  *)
(* thread for client_ready, the native thread for delete_ready.            *)
(***************************************************************************)
WaitsFor(t) == IF t = "ruby" THEN client_ready ELSE delete_ready

CondLock(t) ==
  /\ pc[t] = "lock" /\ mutex = "free"
  /\ mutex' = t
  /\ Goto(t, "check")
  /\ UNCHANGED <<flagVars, readyVars, fields, live, misused, waitVars, objectVars, esVars>>

CondCheck(t) ==
  /\ pc[t] = "check"
  /\ IF WaitsFor(t)
       THEN /\ mutex' = "free" /\ spurious' = 0
            /\ Goto(t, IF t = "ruby" THEN "result" ELSE "delete")
       ELSE Goto(t, "block") /\ UNCHANGED <<mutex, spurious>>
  /\ UNCHANGED <<flagVars, readyVars, fields, live, misused, waiting, objectVars, esVars>>

CondBlock(t) ==
  /\ pc[t] = "block"
  /\ mutex' = "free"
  /\ waiting' = waiting \cup {t}
  /\ Goto(t, "wait")
  /\ UNCHANGED <<spurious, flagVars, readyVars, fields, live, misused, objectVars, esVars>>

CondWoken(t) ==
  /\ pc[t] = "wait" /\ t \notin waiting
  /\ Goto(t, "lock")
  /\ UNCHANGED <<flagVars, readyVars, resourceVars, waitVars, objectVars, esVars>>

\* A wakeup nobody sent, which POSIX allows.
CondSpurious(t) ==
  /\ pc[t] = "wait" /\ t \in waiting
  /\ spurious < MaxSpurious
  /\ spurious' = spurious + 1
  /\ waiting' = waiting \ {t}
  /\ UNCHANGED <<flagVars, readyVars, resourceVars, pc, objectVars, esVars>>

-----------------------------------------------------------------------------
(***************************************************************************)
(* client_native_main.                                                     *)
(***************************************************************************)
NewClient ==
  /\ pc["native"] = "new_client"
  /\ \/ client' = TRUE /\ es' = "live"
     \/ client' = FALSE /\ UNCHANGED es
  /\ Goto("native", "announce")
  /\ UNCHANGED <<flagVars, readyVars, resourceVars, waitVars, objectVars, subscribed>>

Announce ==
  /\ pc["native"] = "announce" /\ mutex = "free"
  /\ mutex' = "native"
  /\ client_ready' = TRUE /\ creation_result' = client
  /\ waiting' = {}
  /\ Goto("native", "announced")
  /\ UNCHANGED <<spurious, flagVars, delete_ready, delete_errors, fields, live, misused, objectVars, esVars>>

Announced ==
  /\ pc["native"] = "announced"
  /\ mutex' = "free"
  /\ Goto("native", IF creation_result THEN "watch" ELSE "dead")
  /\ UNCHANGED <<flagVars, readyVars, fields, live, misused, waitVars, objectVars, esVars>>

\* esrb_watchdog_main: look at the deadlines, and wait.  That the check of
\* watchdog_running and the wait are one step loses nothing: a broadcast
\* between them is missed, and the wait ends by itself.
Watch ==
  /\ pc["native"] = "watch"
  /\ IF watchdog_running
       THEN /\ mutex = "free"
            /\ waiting' = waiting \cup {"native"}
            /\ Goto("native", "slept")
            /\ UNCHANGED watchdog_stopped
       ELSE /\ watchdog_stopped' = TRUE
            /\ Goto("native", "lock")
            /\ UNCHANGED waiting
  /\ UNCHANGED <<owner_pid, closed, watchdog_thread_started, watchdog_running, readyVars,
                 resourceVars, spurious, objectVars, esVars>>

\* A millisecond has passed, or somebody broadcast.
Slept ==
  /\ pc["native"] = "slept" /\ mutex = "free"
  /\ waiting' = waiting \ {"native"}
  /\ Goto("native", "watch")
  /\ UNCHANGED <<spurious, flagVars, readyVars, resourceVars, objectVars, esVars>>

\* es_delete_client; a failure is counted, no more.
DeleteClient ==
  /\ pc["native"] = "delete"
  /\ \/ es' = "deleted" /\ subscribed' = {} /\ UNCHANGED delete_errors
     \/ /\ delete_errors < MaxDeleteErrors
        /\ delete_errors' = delete_errors + 1
        /\ UNCHANGED <<es, subscribed>>
  /\ Goto("native", "dead")
  /\ UNCHANGED <<flagVars, client_ready, creation_result, delete_ready, resourceVars, waitVars,
                 objectVars, client>>

\* A child process has no native thread.
Native ==
  /\ ~forked
  /\ \/ NewClient \/ Announce \/ Announced \/ Watch \/ Slept \/ DeleteClient
     \/ CondLock("native") \/ CondCheck("native") \/ CondBlock("native") \/ CondWoken("native")
-----------------------------------------------------------------------------
(***************************************************************************)
(* client_close_native.                                                    *)
(***************************************************************************)
\* Start it, or return at once: it is closed.
Closing(reason, then) ==
  /\ why' = reason
  /\ Goto("ruby", IF closed THEN then ELSE "close")

\* es_unsubscribe_all's result is not looked at.
CloseBegins ==
  /\ pc["ruby"] = "close"
  /\ closed' = TRUE
  /\ \/ subscribed' = {}
     \/ UNCHANGED subscribed
  /\ IF watchdog_thread_started
       THEN watchdog_running' = FALSE /\ waiting' = {} /\ Goto("ruby", "close_wait")
       ELSE UNCHANGED <<watchdog_running, waiting>> /\ Goto("ruby", "close_end")
  /\ UNCHANGED <<owner_pid, watchdog_thread_started, watchdog_stopped, readyVars, resourceVars,
                 spurious, objectVars, client, es>>

CloseWait ==
  /\ pc["ruby"] = "close_wait" /\ watchdog_stopped
  /\ Goto("ruby", "close_delete")
  /\ UNCHANGED <<flagVars, readyVars, resourceVars, waitVars, objectVars, esVars>>

\* Variant: the flag is set and the condition broadcast without the mutex.
CloseDeleteUnlocked ==
  /\ pc["ruby"] = "close_delete"
  /\ delete_ready' = TRUE /\ waiting' = {}
  /\ Goto("ruby", "close_join")
  /\ UNCHANGED <<flagVars, client_ready, creation_result, delete_errors, resourceVars, spurious,
                 objectVars, esVars>>

\* delete_ready is set and broadcast under the mutex.
CloseDelete ==
  /\ pc["ruby"] = "close_delete" /\ mutex = "free"
  /\ mutex' = "ruby"
  /\ delete_ready' = TRUE /\ waiting' = {}
  /\ Goto("ruby", "close_unlock")
  /\ UNCHANGED <<flagVars, client_ready, creation_result, delete_errors, fields, live, misused,
                 spurious, objectVars, esVars>>

CloseUnlock ==
  /\ pc["ruby"] = "close_unlock"
  /\ mutex' = "free"
  /\ Goto("ruby", "close_join")
  /\ UNCHANGED <<flagVars, readyVars, fields, live, misused, waitVars, objectVars, esVars>>

CloseJoin ==
  /\ pc["ruby"] = "close_join" /\ pc["native"] = "dead"
  /\ watchdog_thread_started' = FALSE
  /\ client' = FALSE
  /\ Goto("ruby", "close_end")
  /\ UNCHANGED <<owner_pid, closed, watchdog_running, watchdog_stopped, readyVars, resourceVars,
                 waitVars, objectVars, es, subscribed>>

\* esrb_notify, and return to where close was called.
CloseEnd ==
  /\ pc["ruby"] = "close_end"
  /\ object' = IF why = "ensure" THEN "raised" ELSE object
  /\ Goto("ruby", IF why = "free" THEN "free" ELSE "none")
  /\ UNCHANGED <<flagVars, readyVars, resourceVars, waitVars, why, forked, esVars>>
-----------------------------------------------------------------------------
(***************************************************************************)
(* client_free, when nothing refers to the object any more.                *)
(***************************************************************************)
\* Variant: client_free without the test of the process.
OwnedHereAlways == TRUE

\* owner_pid == 0 || owner_pid == getpid().
OwnedHere == ~owner_pid \/ ~forked

ClientFree ==
  /\ object \in {"allocated", "usable", "raised"} /\ pc["ruby"] = "none"
  /\ IF OwnedHere
       THEN Closing("free", "free") /\ UNCHANGED <<client, watchdog_running, closed>>
       ELSE /\ client' = FALSE /\ watchdog_running' = FALSE /\ closed' = TRUE
            /\ why' = "free" /\ Goto("ruby", "free")
  /\ UNCHANGED <<owner_pid, watchdog_thread_started, watchdog_stopped, readyVars, resourceVars,
                 waitVars, object, forked, es, subscribed>>

\* A child gives back its memory and descriptors and leaves the mutex and
\* the condition as they are (esrb_watchdog_abandon).
Abandon ==
  /\ live' = live \ fields
  /\ misused' = misused \cup (fields \ live)
  /\ fields' = {}
  /\ UNCHANGED mutex

Freed ==
  /\ pc["ruby"] = "free"
  /\ IF OwnedHere THEN Free(Resources) ELSE Abandon
  /\ object' = "freed"
  /\ Goto("ruby", "none")
  /\ UNCHANGED <<flagVars, readyVars, waitVars, why, forked, esVars>>

\* The functions of this module that run to their end once called.
Running ==
  \/ QueueInit \/ WatchdogInit \/ Pipe \/ FcntlFails \/ Fcntl \/ PthreadCreateFails \/ PthreadCreate
  \/ Created \/ NotCreated
  \/ CondLock("ruby") \/ CondCheck("ruby") \/ CondBlock("ruby") \/ CondWoken("ruby")
  \/ CloseBegins \/ CloseWait \/ CloseDelete \/ CloseUnlock \/ CloseJoin \/ CloseEnd
  \/ Freed
=============================================================================
