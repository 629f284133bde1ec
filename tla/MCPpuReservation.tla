-------------------------- MODULE MCPpuReservation --------------------------
(* PpuReservation on a small instance: two tries, two losses per test. *)
EXTENDS PpuReservation
=============================================================================
