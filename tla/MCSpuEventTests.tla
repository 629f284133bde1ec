--------------------------- MODULE MCSpuEventTests ---------------------------
(* All the tests of SpuEventTests. *)
EXTENDS SpuEventTests

AllTests == DOMAIN Threads
=============================================================================
