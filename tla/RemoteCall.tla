----------------------------- MODULE RemoteCall -----------------------------
(***************************************************************************)
(* What wrap_callback promises to its caller: a function handed to the     *)
(* other thread is run there exactly once, the caller gets the control     *)
(* back only after it has run, and once the callee is told to stop nothing *)
(* is run any more.  It says nothing of how the two threads talk.          *)
(***************************************************************************)
CONSTANTS Jobs,     \* the functions that can be handed over
          NoJob     \* no function is being run

VARIABLES owner,    \* who may use the shared data: "caller", "callee", "stopped"
          job,      \* the function handed over, NoJob outside of a call
          ran       \* has the callee run it already

vars == <<owner, job, ran>>

Init == owner = "caller" /\ job = NoJob /\ ran = FALSE

Call(f) == /\ owner = "caller"
           /\ owner' = "callee"
           /\ job' = f
           /\ UNCHANGED ran

Run == /\ owner = "callee"
       /\ ~ran
       /\ ran' = TRUE
       /\ UNCHANGED <<owner, job>>

Return == /\ owner = "callee"
          /\ ran
          /\ owner' = "caller"
          /\ job' = NoJob
          /\ ran' = FALSE

Stop == /\ owner = "caller"
        /\ owner' = "stopped"
        /\ UNCHANGED <<job, ran>>

Next == (\E f \in Jobs : Call(f)) \/ Run \/ Return \/ Stop

SafeSpec == Init /\ [][Next]_vars
Spec == SafeSpec /\ WF_vars(Run) /\ WF_vars(Return)
=============================================================================
