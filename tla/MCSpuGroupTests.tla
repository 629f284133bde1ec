--------------------------- MODULE MCSpuGroupTests ---------------------------
(* All the tests of SpuGroupTests. *)
EXTENDS SpuGroupTests

AllTests == DOMAIN Programs
=============================================================================
