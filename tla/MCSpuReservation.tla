-------------------------- MODULE MCSpuReservation --------------------------
(* SpuReservation with a short word 0, which wraps around. *)
EXTENDS SpuReservation
=============================================================================
