----------------------------- MODULE MCDelivery -----------------------------
(***************************************************************************)
(* Small instances of Delivery.tla.                                        *)
(***************************************************************************)
EXTENDS Delivery
=============================================================================
