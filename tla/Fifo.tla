-------------------------------- MODULE Fifo --------------------------------
(***************************************************************************)
(* What the watchdog expects of its request ring: a bounded queue from     *)
(* which it receives what the callbacks put in, in the same order, each    *)
(* request once and whole.  A request that finds no room is not put in.    *)
(***************************************************************************)
EXTENDS Naturals, Sequences

CONSTANTS Capacity, Payloads

VARIABLES
  waiting,      \* the requests put in and not received
  received      \* the requests received so far

fifoVars == <<waiting, received>>

Push(request) ==
  /\ Len(waiting) < Capacity
  /\ waiting' = Append(waiting, request)
  /\ UNCHANGED received

Pop ==
  /\ waiting # <<>>
  /\ received' = Append(received, Head(waiting))
  /\ waiting' = Tail(waiting)

FifoNext == Pop \/ \E request \in Payloads : Push(request)

FifoSpec == waiting = <<>> /\ received = <<>> /\ [][FifoNext]_fifoVars
=============================================================================
