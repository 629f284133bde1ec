---------------------------- MODULE MCKernelTests ----------------------------
(* All the tests of KernelTests. *)
EXTENDS KernelTests

AllTests == DOMAIN Programs
=============================================================================
