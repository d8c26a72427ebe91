---------------------------- MODULE MCDispatcher ----------------------------
(***************************************************************************)
(* Small instances of Dispatcher.tla.  One thread of the program starts    *)
(* and closes the client; another one may run a loop of its own and stop   *)
(* the client.                                                             *)
(***************************************************************************)
EXTENDS Dispatcher, TLC

CONSTANTS u1, u2

TwoThreads == (u1 :> {"start", "close"}) @@ (u2 :> {"run", "stop"})
OneThread == u1 :> {"start", "close"}
=============================================================================
