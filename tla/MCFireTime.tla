----------------------------- MODULE MCFireTime -----------------------------
(***************************************************************************)
(* Four-bit words, and a timebase that is not one to one.                  *)
(***************************************************************************)
EXTENDS FireTime
=============================================================================
