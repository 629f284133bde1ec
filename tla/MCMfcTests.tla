----------------------------- MODULE MCMfcTests -----------------------------
(* All the tests of MfcTests. *)
EXTENDS MfcTests

AllTests == DOMAIN Threads
ListTransferSize == {"list_transfer_size"}
=============================================================================
