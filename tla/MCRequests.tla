----------------------------- MODULE MCRequests -----------------------------
(***************************************************************************)
(* Two callbacks arm more requests than two laps of the ring, so that the  *)
(* watchdog copies from slots that are claimed again behind it.            *)
(***************************************************************************)
EXTENDS Requests
=============================================================================
