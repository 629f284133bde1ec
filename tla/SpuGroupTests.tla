---------------------------- MODULE SpuGroupTests ----------------------------
(***************************************************************************)
(* The tests of the life of an SPU thread group.  Each main is a sequence  *)
(* of calls to lv2 that races the thread it has started; its console is    *)
(* what it has printed.                                                    *)
(***************************************************************************)
EXTENDS Naturals, Sequences

CONSTANT Tests    \* the tests to run

VARIABLES group, result, code, mbox, snr, cfg   \* see SpuThreadGroup
INSTANCE SpuThreadGroup

VARIABLES test,      \* the test that runs
          pos,       \* the next call of main
          args,      \* thr_args: arg1 and arg3
          locals,    \* cause, status, thr_code and _srr0
          console,   \* what main has printed
          spu,       \* where the thread is
          to_write,  \* what the thread has read of its channel
          ch_cnt,    \* where the thread puts that
          srr0,      \* where the thread, or the exception handler, puts SRR0
          signaller  \* the PPU thread that triggers the exception handler

lv2 == <<group, result, code, mbox, snr, cfg>>
main == <<test, pos, args, locals, console>>
thread == <<spu, to_write, ch_cnt, srr0, signaller>>
vars == <<lv2, main, thread>>
-----------------------------------------------------------------------------
(* The mains. *)

Unset == 88   \* 1u << 31, or a local of no value

Call(op) == [op |-> op]
Args(arg1, arg3) == [arg1 |-> arg1, arg3 |-> arg3]
SetArgument(a) == [op |-> "set_argument", args |-> a]
Terminate(status) == [op |-> "terminate", status |-> status]
Start == Call("start")
Join == Call("join")
GetExitStatus == Call("get_exit_status")
Show == Call("show")
Destroy == Call("destroy")

\* The thread is asked while it may run from round 6 on.
Asks(i) == i >= 7 - 1

\* Mutant: main terminates the group in every round it asks in.
Ending_TerminatesBoth(i) ==
  IF Asks(i) THEN <<GetExitStatus, Terminate(i), Join>> ELSE <<Join, GetExitStatus>>

Ending(i) == CASE ~Asks(i) -> <<Join, GetExitStatus>>
               [] Asks(i) /\ i % 2 = 0 -> <<GetExitStatus, Terminate(i), Join>>
               [] Asks(i) /\ i % 2 # 0 -> <<GetExitStatus, Join>>

RoundEnding(i, ending) ==
  <<Call("clear"), SetArgument(Args(i, 0)), Start>> \o ending \o <<Show>>
Round(i) == RoundEnding(i, Ending(i))

\* Mutant: a round too many.
get_exit_status_OneMore ==
  Round(0) \o Round(1) \o Round(2) \o Round(3) \o Round(4) \o Round(5) \o Round(6) \o Round(7)
  \o Round(8) \o <<Destroy>>

get_exit_status ==
  Round(0) \o Round(1) \o Round(2) \o Round(3) \o Round(4) \o Round(5) \o Round(6) \o Round(7)
  \o <<Destroy>>

RunAndShow == <<Start, Join, Show>>
FillMailbox == [n \in 1..MboxDepth |-> Call("write_spu_mb")]

\* "Set to wait for external termination", and "Restore SPU thread manual exit"
TerminatedRun == <<SetArgument(Args(2, 1)), Start, Terminate(0), SetArgument(Args(2, 0))>>

\* Mutant: the last run is not waited for.
SNR_and_Mailbox_resets_NoJoin ==
  <<Call("write_snr"), SetArgument(Args(1, 0))>> \o RunAndShow \o RunAndShow
  \o FillMailbox \o <<SetArgument(Args(2, 0))>> \o RunAndShow \o RunAndShow
  \o FillMailbox \o TerminatedRun \o <<Start, Show, Destroy>>

SNR_and_Mailbox_resets ==
  <<Call("write_snr"), SetArgument(Args(1, 0))>> \o RunAndShow \o RunAndShow
  \o FillMailbox \o <<SetArgument(Args(2, 0))>> \o RunAndShow \o RunAndShow
  \o FillMailbox \o TerminatedRun \o RunAndShow \o <<Destroy>>

join_after_exit == <<Start, Join, Join, Destroy>>
start_after_exit == <<Start, Join, Start, Join, Destroy>>

\* "Check value after group_join"
spu_cfg == <<Call("set_invalid_cfg"), Call("set_spu_cfg"), Start, Join, Show, Destroy>>

RunOnce == <<Start, Join, Destroy>>
default_stack_pointer_value == RunOnce
pc_masking == RunOnce

\* The thread's identifier serves as the group's.  Two groups are created and
\* destroyed afterwards; they are not started, and one stands for both.
Threaded_SPU_ID == <<Start, Terminate(0), Destroy, Call("create"), Destroy>>

\* Mutant: srr0 is reset when the handler may have written to it.
SRR0_masking_LateReset ==
  <<Start, Call("await_srr0"), Show, Call("thread_create"), Call("reset_srr0"),
    Call("await_srr0"), Show, Terminate(0), Destroy>>

SRR0_masking ==
  <<Start, Call("await_srr0"), Show, Call("reset_srr0"), Call("thread_create"),
    Call("await_srr0"), Show, Terminate(0), Destroy>>

Programs == [get_exit_status |-> get_exit_status,
             SNR_and_Mailbox_resets |-> SNR_and_Mailbox_resets,
             join_after_exit |-> join_after_exit,
             start_after_exit |-> start_after_exit,
             spu_cfg |-> spu_cfg,
             default_stack_pointer_value |-> default_stack_pointer_value,
             pc_masking |-> pc_masking, Threaded_SPU_ID |-> Threaded_SPU_ID,
             SRR0_masking |-> SRR0_masking]

ASSUME SpuGroupTestsAssumption == Tests \subseteq DOMAIN Programs

Program == Programs[test]
Finished == pos > Len(Program)
At(op) == ~Finished /\ Program[pos].op = op

NoLocals == [cause |-> Unset, status |-> Unset, thr_code |-> Unset, srr0 |-> Unset]

Init == /\ Created
        /\ test \in Tests /\ pos = 1 /\ console = <<>>
        /\ args = Args(Unset, 0) /\ locals = NoLocals
        /\ spu = "off" /\ to_write = Unset /\ ch_cnt = 0
        /\ srr0 = Unset /\ signaller = "none"
-----------------------------------------------------------------------------
(* Main makes its next call.  ENSURE_OK ends the test at a call that       *)
(* fails, as one that is not enabled here would; see NoCallFails.          *)

Step == pos' = pos + 1 /\ UNCHANGED test

Clear == /\ At("clear")
         /\ locals' = NoLocals
         /\ Step /\ UNCHANGED <<lv2, thread, args, console>>

Set_argument == /\ At("set_argument")
                /\ args' = Program[pos].args
                /\ Step /\ UNCHANGED <<lv2, thread, locals, console>>

Write_snr == /\ At("write_snr")
             /\ sys_spu_thread_write_snr
             /\ Step /\ UNCHANGED <<thread, args, locals, console>>

Write_spu_mb == /\ At("write_spu_mb")
                /\ sys_spu_thread_write_spu_mb
                /\ Step /\ UNCHANGED <<thread, args, locals, console>>

Group_start == /\ At("start")
               /\ sys_spu_thread_group_start
               /\ spu' = "main" /\ to_write' = Unset
               /\ Step /\ UNCHANGED <<ch_cnt, srr0, signaller, args, locals, console>>

Group_terminate == /\ At("terminate")
                   /\ sys_spu_thread_group_terminate(Program[pos].status)
                   /\ spu' = "off"
                   /\ Step /\ UNCHANGED <<to_write, ch_cnt, srr0, signaller, args, locals, console>>

Group_join == /\ At("join")
              /\ sys_spu_thread_group_join
              /\ locals' = [locals EXCEPT !.cause = result.cause, !.status = result.status]
              /\ Step /\ UNCHANGED <<thread, args, console>>

\* The status of the last thread exit, whether or not the thread runs again.
Get_exit_status == /\ At("get_exit_status")
                   /\ locals' = IF code = NoStatus THEN locals
                                ELSE [locals EXCEPT !.thr_code = code]
                   /\ Step /\ UNCHANGED <<lv2, thread, args, console>>

\* "Wait for value"
Await_srr0 == /\ At("await_srr0")
              /\ srr0 # Unset
              /\ locals' = [locals EXCEPT !.srr0 = srr0]
              /\ Step /\ UNCHANGED <<lv2, thread, args, console>>

Reset_srr0 == /\ At("reset_srr0")
              /\ srr0' = Unset
              /\ Step
              /\ UNCHANGED <<lv2, spu, to_write, ch_cnt, signaller, args, locals, console>>

Thread_create == /\ At("thread_create")
                 /\ signaller' = "signal"
                 /\ Step
                 /\ UNCHANGED <<lv2, spu, to_write, ch_cnt, srr0, args, locals, console>>

\* "Invalid value", and "No spu thread": the call changes nothing.
Set_invalid_cfg == /\ At("set_invalid_cfg")
                   /\ console' = Append(console, <<set_spu_cfg_result(4)>>)
                   /\ Step /\ UNCHANGED <<lv2, thread, args, locals>>

Set_spu_cfg == /\ At("set_spu_cfg")
               /\ sys_spu_thread_set_spu_cfg(3)
               /\ Step /\ UNCHANGED <<thread, args, locals, console>>

Group_destroy == /\ At("destroy")
                 /\ sys_spu_thread_group_destroy
                 /\ Step /\ UNCHANGED <<thread, args, locals, console>>

Group_create == /\ At("create")
                /\ Create
                /\ Step /\ UNCHANGED <<thread, args, locals, console>>

Shown == CASE test = "get_exit_status" -> <<locals.thr_code, locals.status, locals.cause>>
           [] test = "spu_cfg" -> <<cfg>>
           [] test = "SRR0_masking" -> <<locals.srr0>>
           [] OTHER -> <<ch_cnt>>

PutLine == /\ At("show")
           /\ console' = Append(console, Shown)
           /\ Step /\ UNCHANGED <<lv2, thread, args, locals>>

Main == \/ Clear \/ Set_argument \/ Write_snr \/ Write_spu_mb
        \/ Group_start \/ Group_terminate \/ Group_join \/ Group_destroy \/ Group_create
        \/ Get_exit_status \/ Set_invalid_cfg \/ Set_spu_cfg
        \/ Await_srr0 \/ Reset_srr0 \/ Thread_create \/ PutLine
-----------------------------------------------------------------------------
(* The thread. *)

Ends == spu' = "off" /\ UNCHANGED <<to_write, ch_cnt, srr0, signaller, main>>

Count == args.arg1 + 1   \* "Never write zero"

\* "Don't exit, wait for external termination"
ReturnCount == /\ spu = "main" /\ test = "get_exit_status"
               /\ Count % 2 = 0
               /\ sys_spu_thread_exit(Count)
               /\ Ends

GroupExitCount == /\ spu = "main" /\ test = "get_exit_status"
                  /\ Count % 2 = 1 /\ Count < 7
                  /\ sys_spu_thread_group_exit(Count)
                  /\ Ends

ReadCount == /\ spu = "main" /\ test = "SNR_and_Mailbox_resets"
             /\ to_write' = IF args.arg1 = 1 THEN snr ELSE mbox
             /\ spu' = "put"
             /\ UNCHANGED <<lv2, ch_cnt, srr0, signaller, main>>

\* "Ternimate the thread from sys_spu_thread_group_terminate instead"
PutCount == /\ spu = "put"
            /\ ch_cnt' = to_write
            /\ spu' = IF args.arg3 = 1 THEN "for_ever" ELSE "exit"
            /\ UNCHANGED <<lv2, to_write, srr0, signaller, main>>

\* What the thread writes to SRR0 is all ones; a local store address is left.
Masked == 4
PutSrr0 == /\ spu = "main" /\ test = "SRR0_masking"
           /\ srr0' = Masked
           /\ spu' = "for_ever"
           /\ UNCHANGED <<lv2, to_write, ch_cnt, signaller, main>>

Exit == /\ \/ spu = "exit"
           \/ spu = "main" /\ test \in {"join_after_exit", "start_after_exit", "spu_cfg",
                                       "default_stack_pointer_value", "pc_masking"}
        /\ sys_spu_thread_exit(0)
        /\ Ends

Thread == \/ ReturnCount \/ GroupExitCount \/ ReadCount \/ PutCount
          \/ PutSrr0 \/ Exit
-----------------------------------------------------------------------------
(* The PPU thread of SRR0 masking, and the exception handler it triggers.  *)

signal_thread == /\ signaller = "signal"
                 /\ signaller' = "callback"
                 /\ UNCHANGED <<lv2, main, spu, to_write, ch_cnt, srr0>>

\* "Unreachable": an error may not look like the value main waits for to go.
callback == /\ signaller = "callback"
            /\ srr0' = IF group = "running" THEN Masked ELSE NoStatus
            /\ signaller' = "over"
            /\ UNCHANGED <<lv2, main, spu, to_write, ch_cnt>>

Next == Main \/ Thread \/ signal_thread \/ callback

\* Both processors run, and so do the PPU threads.
Spec == /\ Init /\ [][Next]_vars
        /\ WF_vars(Main) /\ WF_vars(Thread) /\ WF_vars(signal_thread \/ callback)
-----------------------------------------------------------------------------
TypeOK == /\ group \in {"none", "idle", "running"}
          /\ result = NoResult \/ /\ result.cause \in {GroupExited, AllExited, Terminated}
                                  /\ result.status \in 0..8
          /\ code \in {NoStatus} \cup 0..8
          /\ mbox \in 0..MboxDepth /\ snr \in 0..1
          /\ test \in Tests /\ pos \in 1..(Len(Program) + 1)
          /\ args.arg1 \in {Unset} \cup 0..7 /\ args.arg3 \in 0..1
          /\ spu \in {"off", "main", "put", "exit", "for_ever"}
          /\ to_write \in {Unset} \cup 0..MboxDepth /\ ch_cnt \in 0..MboxDepth
          /\ cfg \in {0, 3} /\ srr0 \in {Unset, Masked, NoStatus}
          /\ signaller \in {"none", "signal", "callback", "over"}

\* No call fails: main starts a group that is over, terminates one that still
\* runs, writes to a mailbox with room, and destroys no group that runs.
NoCallFails == /\ At("start") => group = "idle"
               /\ At("terminate") => group = "running"
               /\ At("write_spu_mb") => mbox < MboxDepth
               /\ At("destroy") => group = "idle"

\* What the expected.txt show, but for the thread status of the last round.  A
\* call that fails would end the process with a line of its own.
Expected(t) ==
  CASE t = "get_exit_status" ->
         <<{<<Unset, 1, 1>>}, {<<2, 0, 2>>}, {<<2, 3, 1>>}, {<<4, 0, 2>>}, {<<4, 5, 1>>},
           {<<6, 0, 2>>}, {<<6, 6, 4>>}, {<<6, 0, 2>>, <<8, 0, 2>>}>>
    [] t = "SNR_and_Mailbox_resets" -> <<{<<1>>}, {<<1>>}, {<<4>>}, {<<0>>}, {<<0>>}>>
    [] t = "spu_cfg" -> <<{<<EINVAL>>}, {<<3>>}>>
    [] t = "SRR0_masking" -> <<{<<Masked>>}, {<<Masked>>}>>
    [] OTHER -> <<>>

AsOnTheConsole == NoCallFails /\ \A i \in DOMAIN console : console[i] \in Expected(test)[i]

\* The channel count that main shows is the one read by the run it has joined,
\* and not by an earlier one or by one that was terminated before its put.
ShowsThisRun == (At("show") /\ test = "SNR_and_Mailbox_resets") => ch_cnt = to_write

\* Every test ends, the threads that would never exit notwithstanding; but "the
\* second join" of a group that has exited once is not completed.
EndsOrWaits == <>[](IF test = "join_after_exit" THEN pos = 3 /\ At("join") ELSE Finished)
=============================================================================
