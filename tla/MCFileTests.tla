----------------------------- MODULE MCFileTests -----------------------------
(* All the tests of FileTests, and copy_file_. *)
EXTENDS FileTests

AllTests == DOMAIN Scripts \cup {"cellFs_IDs"}
=============================================================================
