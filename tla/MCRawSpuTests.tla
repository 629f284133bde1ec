---------------------------- MODULE MCRawSpuTests ----------------------------
(* All the tests of RawSpuTests. *)
EXTENDS RawSpuTests

AllTests == DOMAIN Mains
ShortThread == {"restarting_status_bits"}
=============================================================================
