------------------------- MODULE MCWriteOutputMask -------------------------
(* Two bits and two valid masks: six iterations, so each stop is used thrice. *)
EXTENDS WriteOutputMask
=============================================================================
