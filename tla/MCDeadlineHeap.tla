--------------------------- MODULE MCDeadlineHeap ---------------------------
(***************************************************************************)
(* Four slots, so that the heap has three levels, two tickets and three    *)
(* times.                                                                  *)
(***************************************************************************)
EXTENDS DeadlineHeap
=============================================================================
