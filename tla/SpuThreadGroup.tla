--------------------------- MODULE SpuThreadGroup ---------------------------
(***************************************************************************)
(* A group of one SPU thread as the tests use lv2's: main writes to the    *)
(* thread's signal and mailbox, starts the group, joins or terminates it,  *)
(* reads the exit status and destroys it; the thread ends by exiting,      *)
(* itself or with the group.  The group can then be started again.         *)
(***************************************************************************)
EXTENDS Naturals

VARIABLES group,   \* "none", "idle" (initialized, or over) or "running"
          result,  \* the cause and status a join will take, or NoResult
          code,    \* the exit status of the last thread exit, or NoStatus
          mbox,    \* how many values wait in the inbound mailbox
          snr,     \* how many wait in signal notification 1
          cfg      \* the thread's configuration

NoStatus == 99     \* ESTAT
NoResult == [cause |-> 0, status |-> NoStatus]
MboxDepth == 4

\* The causes SYS_SPU_THREAD_GROUP_JOIN_{GROUP_EXIT, ALL_THREADS_EXIT, TERMINATED}.
GroupExited == 1
AllExited == 2
Terminated == 4

Created == /\ group = "idle" /\ result = NoResult /\ code = NoStatus
           /\ mbox = 0 /\ snr = 0 /\ cfg = 0

sys_spu_thread_write_snr == /\ snr' = 1
                            /\ UNCHANGED <<group, result, code, mbox, cfg>>

\* EBUSY when it is full.
sys_spu_thread_write_spu_mb == /\ mbox < MboxDepth
                               /\ mbox' = mbox + 1
                               /\ UNCHANGED <<group, result, code, snr, cfg>>

\* What a join did not take is gone.
sys_spu_thread_group_start == /\ group = "idle"
                              /\ group' = "running"
                              /\ result' = NoResult
                              /\ UNCHANGED <<code, mbox, snr, cfg>>

\* The end of the thread empties its mailbox; a signal stays.
Over(cause, status) == /\ group = "running"
                       /\ group' = "idle"
                       /\ result' = [cause |-> cause, status |-> status]
                       /\ mbox' = 0
                       /\ UNCHANGED <<snr, cfg>>

sys_spu_thread_exit(status) == Over(AllExited, 0) /\ code' = status

sys_spu_thread_group_exit(status) == Over(GroupExited, status) /\ UNCHANGED code

\* ESTAT when nothing runs.
sys_spu_thread_group_terminate(status) == Over(Terminated, status) /\ UNCHANGED code

\* A join waits for the end of a run, and there is one for each run.
sys_spu_thread_group_join == /\ group = "idle" /\ result # NoResult
                             /\ result' = NoResult
                             /\ UNCHANGED <<group, code, mbox, snr, cfg>>

\* Whether the value is valid is looked at first.
EINVAL == 7
set_spu_cfg_result(value) == IF value \in 0..3 THEN 0 ELSE EINVAL

sys_spu_thread_set_spu_cfg(value) == /\ cfg' = value
                                     /\ UNCHANGED <<group, result, code, mbox, snr>>

\* EBUSY when it runs.
sys_spu_thread_group_destroy == /\ group = "idle"
                                /\ group' = "none"
                                /\ UNCHANGED <<result, code, mbox, snr, cfg>>

\* sys_spu_thread_group_create and sys_spu_thread_initialize.
Create == /\ group = "none"
          /\ group' = "idle" /\ result' = NoResult /\ code' = NoStatus
          /\ mbox' = 0 /\ snr' = 0 /\ cfg' = 0
=============================================================================
