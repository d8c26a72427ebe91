------------------------------- MODULE MCQueue ------------------------------
(***************************************************************************)
(* A small ring with more threads than slots and more tickets than two     *)
(* laps, so that every slot is reused while stale positions are still in   *)
(* the hands of other threads.                                             *)
(***************************************************************************)
EXTENDS Queue

\* No symmetry: RingSpec is a temporal property of the same run.
=============================================================================
