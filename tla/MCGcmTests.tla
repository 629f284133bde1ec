----------------------------- MODULE MCGcmTests -----------------------------
(* The tests of GcmTests by what their fences and flips do. *)
EXTENDS GcmTests

FencedTwice == {"image_in"}
FencedOnce == DOMAIN Programs \ FencedTwice
=============================================================================
