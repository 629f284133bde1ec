------------------------ MODULE SpuGroupTests_proofs ------------------------
(***************************************************************************)
(* Proofs about the tests of the life of an SPU thread group: types, the   *)
(* lines on the console, and that each count shown is of the run before.   *)
(***************************************************************************)
EXTENDS SpuGroupTests, SequenceTheorems, TLAPS

USE DEF Unset, NoStatus, MboxDepth, Masked, GroupExited, AllExited, Terminated
-----------------------------------------------------------------------------
(* The programs.                                                           *)

Joined(i) == RoundEnding(i, <<Join, GetExitStatus>>)
Stopped == RoundEnding(6, <<GetExitStatus, Terminate(6), Join>>)
Asked == RoundEnding(7, <<GetExitStatus, Join>>)

\* What main does in the rounds of get_exit_status: the first six, 6 and 7.
LEMMA GetExitStatusIs ==
  get_exit_status = Joined(0) \o Joined(1) \o Joined(2) \o Joined(3) \o Joined(4) \o Joined(5)
                    \o Stopped \o Asked \o <<Destroy>>
  <1>1. /\ \A i \in 0..5 : ~Asks(i)
        /\ Asks(6) /\ Asks(7) /\ 6 % 2 = 0 /\ 7 % 2 = 1
    BY DEF Asks
  <1>2. /\ \A i \in 0..5 : Ending(i) = <<Join, GetExitStatus>>
        /\ Ending(6) = <<GetExitStatus, Terminate(6), Join>>
        /\ Ending(7) = <<GetExitStatus, Join>>
    BY <1>1 DEF Ending
  <1>3. /\ Round(0) = Joined(0) /\ Round(1) = Joined(1) /\ Round(2) = Joined(2)
        /\ Round(3) = Joined(3) /\ Round(4) = Joined(4) /\ Round(5) = Joined(5)
    BY <1>2 DEF Round, Joined
  <1>4. Round(6) = Stopped /\ Round(7) = Asked
    BY <1>2 DEF Round, Stopped, Asked
  <1> QED BY <1>3, <1>4 DEF get_exit_status

\* Its instructions.
LEMMA RoundsAre ==
  LET P == get_exit_status IN
  /\ Len(P) = 50
  /\ \A i \in 0..5 :
       /\ P[6 * i + 1].op = "clear"
       /\ P[6 * i + 2].op = "set_argument" /\ P[6 * i + 2].args = Args(i, 0)
       /\ P[6 * i + 3].op = "start" /\ P[6 * i + 4].op = "join"
       /\ P[6 * i + 5].op = "get_exit_status" /\ P[6 * i + 6].op = "show"
  /\ P[37].op = "clear" /\ P[38].op = "set_argument" /\ P[38].args = Args(6, 0)
  /\ P[39].op = "start" /\ P[40].op = "get_exit_status"
  /\ P[41].op = "terminate" /\ P[41].status = 6 /\ P[42].op = "join" /\ P[43].op = "show"
  /\ P[44].op = "clear" /\ P[45].op = "set_argument" /\ P[45].args = Args(7, 0)
  /\ P[46].op = "start" /\ P[47].op = "get_exit_status"
  /\ P[48].op = "join" /\ P[49].op = "show" /\ P[50].op = "destroy"
  <1> DEFINE P == get_exit_status
             Is(b, i) == /\ P[b + 1].op = "clear"
                         /\ P[b + 2].op = "set_argument" /\ P[b + 2].args = Args(i, 0)
                         /\ P[b + 3].op = "start" /\ P[b + 4].op = "join"
                         /\ P[b + 5].op = "get_exit_status" /\ P[b + 6].op = "show"
  <1>1. Is(0, 0) /\ Is(6, 1) /\ Is(12, 2) /\ Is(18, 3) /\ Is(24, 4) /\ Is(30, 5)
    BY GetExitStatusIs DEF Joined, Stopped, Asked, RoundEnding, Start, Join, Show, Destroy, Call,
       SetArgument, Terminate, GetExitStatus
  <1>2. \A i \in 0..5 : Is(6 * i, i)
    BY <1>1
  <1>3. /\ Len(P) = 50
        /\ P[37].op = "clear" /\ P[38].op = "set_argument" /\ P[38].args = Args(6, 0)
        /\ P[39].op = "start" /\ P[40].op = "get_exit_status"
        /\ P[41].op = "terminate" /\ P[41].status = 6 /\ P[42].op = "join" /\ P[43].op = "show"
        /\ P[44].op = "clear" /\ P[45].op = "set_argument" /\ P[45].args = Args(7, 0)
        /\ P[46].op = "start" /\ P[47].op = "get_exit_status"
        /\ P[48].op = "join" /\ P[49].op = "show" /\ P[50].op = "destroy"
    BY GetExitStatusIs DEF Joined, Stopped, Asked, RoundEnding, Start, Join, Show, Destroy, Call,
       SetArgument, Terminate, GetExitStatus
  <1> QED BY <1>2, <1>3

\* The instructions of SNR_and_Mailbox_resets.
LEMMA ResetsAre ==
  LET P == SNR_and_Mailbox_resets IN
  /\ Len(P) = 31
  /\ P[1].op = "write_snr"
  /\ \A n \in {2, 13, 24, 27} : P[n].op = "set_argument"
  /\ P[2].args = Args(1, 0) /\ P[13].args = Args(2, 0)
  /\ P[24].args = Args(2, 1) /\ P[27].args = Args(2, 0)
  /\ \A n \in {3, 6, 14, 17, 25, 28} : P[n].op = "start"
  /\ \A n \in {4, 7, 15, 18, 29} : P[n].op = "join"
  /\ \A n \in {5, 8, 16, 19, 30} : P[n].op = "show"
  /\ \A n \in (9..12) \cup (20..23) : P[n].op = "write_spu_mb"
  /\ P[26].op = "terminate" /\ P[26].status = 0
  /\ P[31].op = "destroy"
  <1> DEFINE P == SNR_and_Mailbox_resets
  <1>1. /\ Len(P) = 31
        /\ P[1].op = "write_snr"
        /\ P[2].op = "set_argument" /\ P[2].args = Args(1, 0)
        /\ P[3].op = "start" /\ P[4].op = "join" /\ P[5].op = "show"
        /\ P[6].op = "start" /\ P[7].op = "join" /\ P[8].op = "show"
        /\ P[9].op = "write_spu_mb" /\ P[10].op = "write_spu_mb"
        /\ P[11].op = "write_spu_mb" /\ P[12].op = "write_spu_mb"
        /\ P[13].op = "set_argument" /\ P[13].args = Args(2, 0)
        /\ P[14].op = "start" /\ P[15].op = "join" /\ P[16].op = "show"
        /\ P[17].op = "start" /\ P[18].op = "join" /\ P[19].op = "show"
        /\ P[20].op = "write_spu_mb" /\ P[21].op = "write_spu_mb"
        /\ P[22].op = "write_spu_mb" /\ P[23].op = "write_spu_mb"
        /\ P[24].op = "set_argument" /\ P[24].args = Args(2, 1)
        /\ P[25].op = "start" /\ P[26].op = "terminate" /\ P[26].status = 0
        /\ P[27].op = "set_argument" /\ P[27].args = Args(2, 0)
        /\ P[28].op = "start" /\ P[29].op = "join" /\ P[30].op = "show" /\ P[31].op = "destroy"
    BY DEF SNR_and_Mailbox_resets, RunAndShow, FillMailbox, TerminatedRun, Start, Join, Show,
       Destroy, Call, SetArgument, Terminate
  <1> QED BY <1>1

\* And those of the short ones.
LEMMA OthersAre ==
  /\ LET P == spu_cfg IN
     /\ Len(P) = 6 /\ P[1].op = "set_invalid_cfg" /\ P[2].op = "set_spu_cfg"
     /\ P[3].op = "start" /\ P[4].op = "join" /\ P[5].op = "show" /\ P[6].op = "destroy"
  /\ LET P == SRR0_masking IN
     /\ Len(P) = 9 /\ P[1].op = "start" /\ P[2].op = "await_srr0" /\ P[3].op = "show"
     /\ P[4].op = "reset_srr0" /\ P[5].op = "thread_create" /\ P[6].op = "await_srr0"
     /\ P[7].op = "show" /\ P[8].op = "terminate" /\ P[8].status = 0 /\ P[9].op = "destroy"
  /\ LET P == Threaded_SPU_ID IN
     /\ Len(P) = 5 /\ P[1].op = "start" /\ P[2].op = "terminate" /\ P[2].status = 0
     /\ P[3].op = "destroy" /\ P[4].op = "create" /\ P[5].op = "destroy"
  /\ LET P == join_after_exit IN
     /\ Len(P) = 4 /\ P[1].op = "start" /\ P[2].op = "join" /\ P[3].op = "join"
     /\ P[4].op = "destroy"
  /\ LET P == start_after_exit IN
     /\ Len(P) = 5 /\ P[1].op = "start" /\ P[2].op = "join" /\ P[3].op = "start"
     /\ P[4].op = "join" /\ P[5].op = "destroy"
  /\ LET P == RunOnce IN
     /\ Len(P) = 3 /\ P[1].op = "start" /\ P[2].op = "join" /\ P[3].op = "destroy"
  BY DEF spu_cfg, SRR0_masking, Threaded_SPU_ID, join_after_exit, start_after_exit, RunOnce,
     Start, Join, Show, Destroy, Call, Terminate

\* The program that runs.
LEMMA ProgramIs ==
  /\ test = "get_exit_status" => Program = get_exit_status
  /\ test = "SNR_and_Mailbox_resets" => Program = SNR_and_Mailbox_resets
  /\ test = "spu_cfg" => Program = spu_cfg
  /\ test = "SRR0_masking" => Program = SRR0_masking
  /\ test = "Threaded_SPU_ID" => Program = Threaded_SPU_ID
  /\ test = "join_after_exit" => Program = join_after_exit
  /\ test = "start_after_exit" => Program = start_after_exit
  /\ test \in {"default_stack_pointer_value", "pc_masking"} => Program = RunOnce
  BY DEF Program, Programs, default_stack_pointer_value, pc_masking

TestNames == {"get_exit_status", "SNR_and_Mailbox_resets", "spu_cfg", "SRR0_masking",
              "Threaded_SPU_ID", "join_after_exit", "start_after_exit",
              "default_stack_pointer_value", "pc_masking"}

\* The tests.
LEMMA TestIsOneOf == Tests \subseteq TestNames
  BY SpuGroupTestsAssumption DEF Programs, TestNames
-----------------------------------------------------------------------------
(* Types.                                                                  *)

AnyArgs == [arg1 : {Unset} \cup 0..7, arg3 : 0..1]
AnyLocals == [cause : Nat, status : Nat, thr_code : Nat, srr0 : Nat]

Typed == /\ group \in {"none", "idle", "running"}
         /\ result \in {NoResult} \cup [cause : {GroupExited, AllExited, Terminated}, status : 0..8]
         /\ code \in {NoStatus} \cup 0..8
         /\ mbox \in 0..MboxDepth /\ snr \in 0..1 /\ cfg \in {0, 3}
         /\ test \in Tests /\ pos \in 1..(Len(Program) + 1)
         /\ args \in AnyArgs /\ locals \in AnyLocals /\ console \in Seq(Seq(Nat))
         /\ spu \in {"off", "main", "put", "exit", "for_ever"}
         /\ to_write \in {Unset} \cup 0..MboxDepth /\ ch_cnt \in 0..MboxDepth
         /\ srr0 \in {Unset, Masked, NoStatus}
         /\ signaller \in {"none", "signal", "callback", "over"}

\* The thread is somewhere as long as the group runs, and has read before it puts.
Together == /\ group = "running" <=> spu # "off"
            /\ spu = "put" => to_write # Unset

\* What main gives to the calls of lv2 is in range.
Legal(P) == /\ Len(P) \in Nat
            /\ \A n \in 1..Len(P) : /\ P[n].op = "set_argument" => P[n].args \in AnyArgs
                                    /\ P[n].op = "terminate" => P[n].status \in 0..8

\* The first six rounds of get_exit_status are six calls each.
LEMMA InRounds == \A n \in 1..36 : \E i \in 0..5 : \E k \in 1..6 : n = 6 * i + k
  <1> SUFFICES ASSUME NEW n \in 1..36 PROVE \E i \in 0..5 : \E k \in 1..6 : n = 6 * i + k
    OBVIOUS
  <1>1. (n - 1) \div 6 \in 0..5 /\ n - 6 * ((n - 1) \div 6) \in 1..6
    OBVIOUS
  <1>2. n = 6 * ((n - 1) \div 6) + (n - 6 * ((n - 1) \div 6))
    OBVIOUS
  <1> QED BY <1>1, <1>2

\* So it is in all the programs.
LEMMA AllLegal == ASSUME test \in Tests PROVE Legal(Program)
  <1> DEFINE P == get_exit_status
  <1>1. Legal(P)
    <2>1. ASSUME NEW n \in 1..36
          PROVE  /\ P[n].op = "set_argument" => P[n].args \in AnyArgs
                 /\ P[n].op # "terminate"
      <3>1. PICK i \in 0..5, k \in 1..6 : n = 6 * i + k
        BY InRounds
      <3>2. P[6 * i + 2].args = Args(i, 0) /\ Args(i, 0) \in AnyArgs
        BY RoundsAre DEF Args, AnyArgs
      <3> QED BY <3>1, <3>2, RoundsAre
    <2>2. Args(6, 0) \in AnyArgs /\ Args(7, 0) \in AnyArgs
      BY DEF Args, AnyArgs
    <2> QED BY <2>1, <2>2, RoundsAre DEF Legal
  <1>2. Legal(SNR_and_Mailbox_resets)
    <2>1. Args(1, 0) \in AnyArgs /\ Args(2, 0) \in AnyArgs /\ Args(2, 1) \in AnyArgs
      BY DEF Args, AnyArgs
    <2> QED BY <2>1, ResetsAre DEF Legal
  <1>3. /\ Legal(spu_cfg) /\ Legal(SRR0_masking) /\ Legal(Threaded_SPU_ID)
        /\ Legal(join_after_exit) /\ Legal(start_after_exit) /\ Legal(RunOnce)
    BY OthersAre DEF Legal
  <1> QED BY <1>1, <1>2, <1>3, ProgramIs, TestIsOneOf DEF TestNames

\* What main does is given by the instruction it is at.
LEMMA MainIs ==
  ASSUME Main, NEW op, op = Program[pos].op
  PROVE  /\ ~Finished /\ pos' = pos + 1 /\ test' = test
         /\ op = "clear" => Clear
         /\ op = "set_argument" => Set_argument
         /\ op = "write_snr" => Write_snr
         /\ op = "write_spu_mb" => Write_spu_mb
         /\ op = "start" => Group_start
         /\ op = "terminate" => Group_terminate
         /\ op = "join" => Group_join
         /\ op = "destroy" => Group_destroy
         /\ op = "create" => Group_create
         /\ op = "get_exit_status" => Get_exit_status
         /\ op = "set_invalid_cfg" => Set_invalid_cfg
         /\ op = "set_spu_cfg" => Set_spu_cfg
         /\ op = "await_srr0" => Await_srr0
         /\ op = "reset_srr0" => Reset_srr0
         /\ op = "thread_create" => Thread_create
         /\ op = "show" => PutLine
  BY DEF Main, At, Step, Clear, Set_argument, Write_snr, Write_spu_mb, Group_start,
     Group_terminate, Group_join, Group_destroy, Group_create, Get_exit_status, Set_spu_cfg,
     Set_invalid_cfg, Await_srr0, Reset_srr0, Thread_create, PutLine

\* Every step keeps the test and its program.
LEMMA SameTest == ASSUME [Next]_vars PROVE test' = test /\ Program' = Program
  BY DEF Next, Main, Step, Clear, Set_argument, Write_snr, Write_spu_mb, Group_start,
     Group_terminate, Group_join, Group_destroy, Group_create, Get_exit_status, Set_spu_cfg,
     Set_invalid_cfg, Await_srr0, Reset_srr0, Thread_create, PutLine, Thread, ReturnCount, GroupExitCount, ReadCount,
     PutCount, PutSrr0, Exit, Ends, signal_thread, callback, vars, main, Program

\* The thread, and the exception handler, keep the types.
LEMMA ThreadKeepsTypes ==
  ASSUME Typed, Together, Thread \/ signal_thread \/ callback
  PROVE  Typed' /\ Together'
  <1> USE DEF Typed, Together, lv2, main
  <1>1. Program' = Program
    BY SameTest DEF Next
  <1>2. CASE ReturnCount
    <2>1. Count \in 1..8
      <3>1. args.arg1 \in {Unset} \cup 0..7 /\ (Unset + 1) % 2 # 0
        BY DEF AnyArgs
      <3> QED BY <1>2, <3>1 DEF ReturnCount, Count
    <2>2. sys_spu_thread_exit(Count) /\ Ends
      BY <1>2 DEF ReturnCount
    <2> QED BY <1>1, <2>1, <2>2 DEF sys_spu_thread_exit, Over, Ends
  <1>3. CASE GroupExitCount
    <2>1. Count \in 1..8
      BY <1>3 DEF GroupExitCount, Count, AnyArgs
    <2>2. sys_spu_thread_group_exit(Count) /\ Ends
      BY <1>3 DEF GroupExitCount
    <2> QED BY <1>1, <2>1, <2>2 DEF sys_spu_thread_group_exit, Over, Ends
  <1>4. CASE ReadCount
    BY <1>1, <1>4 DEF ReadCount
  <1>5. CASE PutCount
    BY <1>1, <1>5 DEF PutCount
  <1>6. CASE PutSrr0
    BY <1>1, <1>6 DEF PutSrr0
  <1>7. CASE Exit
    BY <1>1, <1>7 DEF Exit, sys_spu_thread_exit, Over, Ends
  <1>8. CASE signal_thread
    BY <1>1, <1>8 DEF signal_thread
  <1>9. CASE callback
    BY <1>1, <1>9 DEF callback
  <1> QED BY <1>2, <1>3, <1>4, <1>5, <1>6, <1>7, <1>8, <1>9 DEF Thread

\* And main does.
LEMMA MainKeepsTypes ==
  ASSUME Typed, Together, Main
  PROVE  Typed' /\ Together'
  <1>1. Program' = Program
    BY SameTest DEF Next
  <1>2. /\ test' \in Tests /\ pos' \in 1..(Len(Program) + 1)' /\ pos \in 1..Len(Program)
        /\ Program[pos].op = "set_argument" => Program[pos].args \in AnyArgs
        /\ Program[pos].op = "terminate" => Program[pos].status \in 0..8
    <2>1. /\ ~Finished /\ pos' = pos + 1 /\ test' = test
      BY MainIs
    <2>2. Legal(Program)
      BY AllLegal DEF Typed
    <2>3. pos \in 1..Len(Program)
      BY <2>1, <2>2 DEF Finished, Typed, Legal
    <2> QED BY <1>1, <2>1, <2>2, <2>3 DEF Typed, Legal
  <1> USE DEF Typed, Together, lv2, thread
  <1>3. CASE Clear
    BY <1>2, <1>3 DEF Clear, NoLocals, AnyLocals
  <1>4. CASE Set_argument
    BY <1>2, <1>4 DEF Set_argument, At
  <1>5. CASE Write_snr
    BY <1>2, <1>5 DEF Write_snr, sys_spu_thread_write_snr
  <1>6. CASE Write_spu_mb
    BY <1>2, <1>6 DEF Write_spu_mb, sys_spu_thread_write_spu_mb
  <1>7. CASE Group_start
    BY <1>2, <1>7 DEF Group_start, sys_spu_thread_group_start
  <1>8. CASE Group_terminate
    BY <1>2, <1>8 DEF Group_terminate, At, sys_spu_thread_group_terminate, Over
  <1>9. CASE Group_join
    <2>1. result.cause \in Nat /\ result.status \in Nat
      BY DEF NoResult
    <2>2. locals' \in AnyLocals
      BY <1>9, <2>1 DEF Group_join, AnyLocals
    <2> QED BY <1>2, <1>9, <2>2 DEF Group_join, sys_spu_thread_group_join
  <1>10. CASE Get_exit_status
    <2>1. code \in Nat
      OBVIOUS
    <2>2. [locals EXCEPT !.thr_code = code] \in AnyLocals
      BY <2>1 DEF AnyLocals
    <2>3. locals' \in AnyLocals
      BY <1>10, <2>2 DEF Get_exit_status
    <2> QED BY <1>2, <1>10, <2>3 DEF Get_exit_status
  <1>11. CASE Await_srr0
    <2>1. srr0 \in Nat
      OBVIOUS
    <2>2. [locals EXCEPT !.srr0 = srr0] \in AnyLocals
      BY <2>1 DEF AnyLocals
    <2>3. locals' \in AnyLocals
      BY <1>11, <2>2 DEF Await_srr0
    <2> QED BY <1>2, <1>11, <2>3 DEF Await_srr0
  <1>12. CASE Reset_srr0
    BY <1>2, <1>12 DEF Reset_srr0
  <1>13. CASE Thread_create
    BY <1>2, <1>13 DEF Thread_create
  <1>14. CASE Set_spu_cfg
    BY <1>2, <1>14 DEF Set_spu_cfg, sys_spu_thread_set_spu_cfg
  <1>15. CASE Group_destroy
    BY <1>2, <1>15 DEF Group_destroy, sys_spu_thread_group_destroy
  <1>16. CASE Group_create
    BY <1>2, <1>16 DEF Group_create, Create
  <1>17. CASE PutLine
    <2>1. Shown \in Seq(Nat)
      <3>1. /\ locals.thr_code \in Nat /\ locals.status \in Nat /\ locals.cause \in Nat
            /\ locals.srr0 \in Nat /\ cfg \in Nat /\ ch_cnt \in Nat
        BY DEF AnyLocals
      <3> QED BY <3>1 DEF Shown
    <2> QED BY <1>2, <1>17, <2>1, AppendProperties DEF PutLine
  <1>18. CASE Set_invalid_cfg
    <2>1. <<set_spu_cfg_result(4)>> \in Seq(Nat)
      BY DEF set_spu_cfg_result, EINVAL
    <2> QED BY <1>2, <1>18, <2>1, AppendProperties DEF Set_invalid_cfg
  <1> QED BY <1>3, <1>4, <1>5, <1>6, <1>7, <1>8, <1>9, <1>10, <1>11, <1>12, <1>13, <1>14, <1>15,
             <1>16, <1>17, <1>18 DEF Main

\* A line is added to the console.
LEMMA PutsOne == ASSUME Typed, PutLine PROVE Len(console') = Len(console) + 1
  BY AppendProperties DEF Typed, PutLine
-----------------------------------------------------------------------------
(* The invariant: what is so at each call of each main.                    *)

\* How the run of a round ends, and the exit status before it.
EndOf(i) == IF i % 2 = 0 THEN [cause |-> GroupExited, status |-> i + 1]
                         ELSE [cause |-> AllExited, status |-> 0]
CodeBefore(i) == IF i < 2 THEN NoStatus ELSE IF i < 4 THEN 2 ELSE IF i < 6 THEN 4 ELSE 6

\* A round that joins before it asks, at its k-th call.
JoinedAt(i, k) ==
  /\ pos = 6 * i + k /\ Len(console) = i
  /\ spu \in {"off", "main"} /\ (k # 4 => spu = "off")
  /\ code = IF k > 4 \/ (k = 4 /\ spu = "off") THEN CodeBefore(i + 1) ELSE CodeBefore(i)
  /\ k > 2 => args.arg1 = i
  /\ k = 4 /\ spu = "off" => result = EndOf(i)
  /\ k > 4 => locals.cause = EndOf(i).cause /\ locals.status = EndOf(i).status
  /\ k \in 2..5 => locals.thr_code = Unset
  /\ k = 6 => locals.thr_code = IF i = 0 THEN Unset ELSE CodeBefore(i + 1)

\* The one whose thread runs until it is terminated.
StoppedRound == /\ pos \in 37..43 /\ Len(console) = 6 /\ code = 6
                /\ spu = IF pos \in 40..41 THEN "main" ELSE "off"
                /\ pos > 38 => args.arg1 = 6
                /\ pos > 40 => locals.thr_code = 6
                /\ pos = 42 => result = [cause |-> Terminated, status |-> 6]
                /\ pos = 43 => locals.cause = Terminated /\ locals.status = 6

\* The one that asks while the thread exits.
AskedRound == /\ pos \in 44..49 /\ Len(console) = 7
              /\ spu \in {"off", "main"} /\ (pos \notin 47..48 => spu = "off")
              /\ code = IF pos = 49 \/ (pos \in 47..48 /\ spu = "off") THEN 8 ELSE 6
              /\ pos > 45 => args.arg1 = 7
              /\ pos \in 47..48 /\ spu = "off" => result = EndOf(7)
              /\ pos > 47 => locals.thr_code \in {6, 8}
              /\ pos = 49 => locals.cause = AllExited /\ locals.status = 0

RoundsInv == /\ \/ \E i \in 0..5 : \E k \in 1..6 : JoinedAt(i, k)
                \/ StoppedRound
                \/ AskedRound
                \/ pos \in 50..51 /\ Len(console) = 8 /\ spu = "off"
             /\ pos < 51 => group # "none"

\* What is to be read in a run of SNR_and_Mailbox_resets.
Waiting(n) == IF n < 9 THEN 1 ELSE IF n \in 15..16 THEN 4 ELSE 0

ResetsInv ==
  /\ pos < 32 => group # "none"
  /\ snr = IF pos = 1 THEN 0 ELSE 1
  /\ mbox = IF pos \in 9..12 THEN pos - 9
            ELSE IF pos \in 20..23 THEN pos - 20
            ELSE IF pos \in (13..14) \cup (24..26) \/ (pos = 15 /\ spu # "off") THEN 4 ELSE 0
  /\ pos \in 3..13 => args = Args(1, 0)
  /\ pos \in 25..27 => args = Args(2, 1)
  /\ pos \in (14..24) \cup (28..32) => args = Args(2, 0)
  /\ pos \notin {4, 7, 15, 18, 26, 29} => spu = "off"
  /\ pos = 26 => spu \in {"main", "put", "for_ever"}
  /\ pos # 26 => spu # "for_ever"
  /\ pos \in {4, 7, 15, 18, 29} /\ spu # "main" => to_write = Waiting(pos)
  /\ pos \in {4, 7, 15, 18, 29} /\ spu \in {"exit", "off"} => ch_cnt = Waiting(pos)
  /\ pos \in {5, 8, 16, 19, 30} => to_write = Waiting(pos) /\ ch_cnt = Waiting(pos)
  /\ Len(console) = IF pos < 6 THEN 0 ELSE IF pos < 9 THEN 1 ELSE IF pos < 17 THEN 2
                    ELSE IF pos < 20 THEN 3 ELSE IF pos < 31 THEN 4 ELSE 5

CfgInv == /\ pos < 7 => group # "none"
          /\ pos > 2 => cfg = 3
          /\ spu \in {"off", "main"} /\ (pos # 4 => spu = "off")
          /\ Len(console) = IF pos < 2 THEN 0 ELSE IF pos < 6 THEN 1 ELSE 2

\* Main sees the thread's value, then the handler's: the thread does not write again.
Srr0Inv == /\ pos < 10 => group # "none"
           /\ spu \in IF pos \in 3..8 THEN {"for_ever"}
                      ELSE IF pos = 2 THEN {"main", "for_ever"} ELSE {"off"}
           /\ pos < 6 => signaller = "none"
           /\ pos = 6 => signaller # "none"
           /\ pos > 6 => signaller = "over"
           /\ pos < 7 => srr0 = IF (pos < 5 /\ spu = "for_ever") \/ signaller = "over"
                                THEN Masked ELSE Unset
           /\ pos \in {3, 7} => locals.srr0 = Masked
           /\ Len(console) = IF pos < 4 THEN 0 ELSE IF pos < 8 THEN 1 ELSE 2

\* The tests that show nothing.
Silent == {"join_after_exit", "start_after_exit", "default_stack_pointer_value", "pc_masking",
           "Threaded_SPU_ID"}
SilentInv == /\ console = <<>>
             /\ spu \in {"off", "main"}
             /\ spu = "main" => pos = 2 \/ (pos = 4 /\ test = "start_after_exit")
             /\ group = "none" => Finished \/ (pos = 4 /\ test = "Threaded_SPU_ID")
             /\ pos = 2 /\ test = "Threaded_SPU_ID" => spu = "main"

Lines == \A n \in 1..Len(console) : console[n] \in Expected(test)[n]

IInv == /\ Typed /\ Together /\ Lines
        /\ test = "get_exit_status" => RoundsInv
        /\ test = "SNR_and_Mailbox_resets" => ResetsInv
        /\ test = "spu_cfg" => CfgInv
        /\ test = "SRR0_masking" => Srr0Inv
        /\ test \in Silent => SilentInv
-----------------------------------------------------------------------------
(* get_exit_status.                                                        *)

\* Its thread exits, with its group in every other round before the last two.
LEMMA RoundsThread ==
  ASSUME test = "get_exit_status", Typed, Together, spu \in {"off", "main"},
         Thread \/ signal_thread \/ callback, NEW i \in 0..7, spu = "main" => args.arg1 = i
  PROVE  /\ UNCHANGED <<pos, test, args, locals, console>>
         /\ \/ UNCHANGED <<group, result, code, spu>>
            \/ /\ spu = "main" /\ spu' = "off" /\ group' = "idle" /\ i # 6
               /\ result' = EndOf(i) /\ code' = IF i % 2 = 0 THEN code ELSE i + 1
  <1> USE DEF Together, lv2, main
  <1>1. CASE ReturnCount
    BY <1>1 DEF ReturnCount, Count, sys_spu_thread_exit, Over, Ends, EndOf
  <1>2. CASE GroupExitCount
    BY <1>2 DEF GroupExitCount, Count, sys_spu_thread_group_exit, Over, Ends, EndOf
  <1>3. CASE ReadCount \/ PutCount \/ PutSrr0 \/ Exit
    BY <1>3 DEF ReadCount, PutCount, PutSrr0, Exit
  <1>4. CASE signal_thread \/ callback
    BY <1>4 DEF signal_thread, callback
  <1> QED BY <1>1, <1>2, <1>3, <1>4 DEF Thread

\* The first six rounds, and the beginning of what follows.
LEMMA JoinedKept ==
  ASSUME test = "get_exit_status", Typed, Together, NEW i \in 0..5, NEW k \in 1..6, JoinedAt(i, k),
         group # "none", Next
  PROVE  RoundsInv'
  <1> DEFINE P == get_exit_status
  <1>1. /\ P[6 * i + 1].op = "clear"
        /\ P[6 * i + 2].op = "set_argument" /\ P[6 * i + 2].args = Args(i, 0)
        /\ P[6 * i + 3].op = "start" /\ P[6 * i + 4].op = "join"
        /\ P[6 * i + 5].op = "get_exit_status" /\ P[6 * i + 6].op = "show"
    BY RoundsAre
  <1>2. Program = P
    BY ProgramIs
  <1> HIDE DEF P
  <1>3. CASE Thread \/ signal_thread \/ callback
    <2>1. /\ UNCHANGED <<pos, test, args, locals, console>>
          /\ \/ UNCHANGED <<group, result, code, spu>>
             \/ /\ spu = "main" /\ spu' = "off" /\ group' = "idle" /\ i # 6
                /\ result' = EndOf(i) /\ code' = IF i % 2 = 0 THEN code ELSE i + 1
      <3>1. i \in 0..7 /\ spu \in {"off", "main"} /\ (spu = "main" => args.arg1 = i)
        BY DEF JoinedAt
      <3> QED BY <1>3, <3>1, RoundsThread
    <2>2. CodeBefore(i + 1) = IF i % 2 = 0 THEN CodeBefore(i) ELSE i + 1
      BY DEF CodeBefore
    <2>3. JoinedAt(i, k)' /\ group' # "none"
      BY <2>1, <2>2 DEF JoinedAt
    <2> QED BY <2>3 DEF RoundsInv
  <1>4. CASE Main
    <2>1. PICK op : op = Program[pos].op
      OBVIOUS
    <2>2. /\ pos' = pos + 1
          /\ k = 1 => Clear
          /\ k = 2 => Set_argument /\ Program[pos].args = Args(i, 0)
          /\ k = 3 => Group_start
          /\ k = 4 => Group_join
          /\ k = 5 => Get_exit_status
          /\ k = 6 => PutLine
      BY <1>1, <1>2, <1>4, <2>1, MainIs DEF JoinedAt
    <2>3. k < 6 => pos' = 6 * i + (k + 1)
      BY <2>2 DEF JoinedAt
    <2> USE DEF lv2, thread
    <2>4. CASE k = 1
      <3>1. JoinedAt(i, 2)' /\ group' # "none"
        BY <2>2, <2>3, <2>4 DEF Clear, JoinedAt, NoLocals
      <3> QED BY <3>1 DEF RoundsInv
    <2>5. CASE k = 2
      <3>1. JoinedAt(i, 3)' /\ group' # "none"
        BY <2>2, <2>3, <2>5 DEF Set_argument, JoinedAt, Args
      <3> QED BY <3>1 DEF RoundsInv
    <2>6. CASE k = 3
      <3>1. JoinedAt(i, 4)' /\ group' # "none"
        BY <2>2, <2>3, <2>6 DEF Group_start, sys_spu_thread_group_start, JoinedAt
      <3> QED BY <3>1 DEF RoundsInv
    <2>7. CASE k = 4
      <3>1. /\ spu = "off"
            /\ locals' = [locals EXCEPT !.cause = result.cause, !.status = result.status]
        BY <2>2, <2>7 DEF Group_join, sys_spu_thread_group_join, JoinedAt, Together
      <3>2. /\ locals'.cause = result.cause /\ locals'.status = result.status
            /\ locals'.thr_code = locals.thr_code
        BY <3>1 DEF Typed, AnyLocals
      <3>3. JoinedAt(i, 5)' /\ group' # "none"
        BY <2>2, <2>3, <2>7, <3>1, <3>2 DEF Group_join, sys_spu_thread_group_join, JoinedAt
      <3> QED BY <3>3 DEF RoundsInv
    <2>8. CASE k = 5
      <3>1. /\ locals'.cause = locals.cause /\ locals'.status = locals.status
            /\ locals'.thr_code = IF code = NoStatus THEN locals.thr_code ELSE code
        BY <2>2, <2>8 DEF Get_exit_status, Typed, AnyLocals
      <3>2. CodeBefore(i + 1) = NoStatus <=> i = 0
        BY DEF CodeBefore
      <3>3. locals'.thr_code = IF i = 0 THEN Unset ELSE CodeBefore(i + 1)
        BY <2>8, <3>1, <3>2 DEF JoinedAt
      <3>4. UNCHANGED <<group, code, spu, args, console>>
        BY <2>2, <2>8 DEF Get_exit_status
      <3>5. JoinedAt(i, 6)' /\ group' # "none"
        BY <2>3, <2>8, <3>1, <3>3, <3>4 DEF JoinedAt
      <3> QED BY <3>5 DEF RoundsInv
    <2>9. CASE k = 6
      <3>1. Len(console') = i + 1
        BY <2>2, <2>9, PutsOne DEF JoinedAt
      <3>2. group' # "none"
        BY <2>2, <2>9 DEF PutLine
      <3>3. CASE i < 5
        <4>1. pos' = 6 * (i + 1) + 1
          BY <2>2, <2>9 DEF JoinedAt
        <4>2. JoinedAt(i + 1, 1)'
          BY <2>2, <2>9, <3>1, <4>1 DEF PutLine, JoinedAt
        <4> QED BY <3>2, <3>3, <4>2 DEF RoundsInv
      <3>4. CASE i = 5
        <4>1. StoppedRound'
          BY <2>2, <2>9, <3>1, <3>4 DEF PutLine, JoinedAt, StoppedRound, CodeBefore
        <4> QED BY <3>2, <4>1 DEF RoundsInv
      <3> QED BY <3>3, <3>4
    <2> QED BY <2>4, <2>5, <2>6, <2>7, <2>8, <2>9
  <1> QED BY <1>3, <1>4 DEF Next

\* The round that is terminated.
LEMMA StoppedKept ==
  ASSUME test = "get_exit_status", Typed, Together, StoppedRound, group # "none", Next
  PROVE  RoundsInv'
  <1> DEFINE P == get_exit_status
  <1>1. Program = P
    BY ProgramIs
  <1> HIDE DEF P
  <1>2. CASE Thread \/ signal_thread \/ callback
    <2>1. UNCHANGED <<pos, args, locals, console, group, result, code, spu>>
      <3>1. 6 \in 0..7 /\ spu \in {"off", "main"} /\ (spu = "main" => args.arg1 = 6)
        BY DEF StoppedRound
      <3> QED BY <1>2, <3>1, RoundsThread
    <2>2. StoppedRound' /\ group' # "none"
      BY <2>1 DEF StoppedRound
    <2> QED BY <2>2 DEF RoundsInv
  <1>3. CASE Main
    <2>1. PICK op : op = Program[pos].op
      OBVIOUS
    <2>2. /\ pos' = pos + 1
          /\ pos = 37 => Clear
          /\ pos = 38 => Set_argument /\ Program[pos].args = Args(6, 0)
          /\ pos = 39 => Group_start
          /\ pos = 40 => Get_exit_status
          /\ pos = 41 => Group_terminate /\ Program[pos].status = 6
          /\ pos = 42 => Group_join
          /\ pos = 43 => PutLine
      BY <1>1, <1>3, <2>1, MainIs, RoundsAre DEF P
    <2> USE DEF lv2, thread
    <2>3. CASE pos < 43
      <3>1. StoppedRound' /\ group' # "none"
        <4>1. CASE pos = 37
          BY <2>2, <4>1 DEF Clear, StoppedRound, NoLocals
        <4>2. CASE pos = 38
          BY <2>2, <4>2 DEF Set_argument, StoppedRound, Args
        <4>3. CASE pos = 39
          BY <2>2, <4>3 DEF Group_start, sys_spu_thread_group_start, StoppedRound
        <4>4. CASE pos = 40
          <5>1. locals'.thr_code = 6
            BY <2>2, <4>4 DEF Get_exit_status, StoppedRound, Typed, AnyLocals
          <5> QED BY <2>2, <4>4, <5>1 DEF Get_exit_status, StoppedRound
        <4>5. CASE pos = 41
          BY <2>2, <4>5 DEF Group_terminate, sys_spu_thread_group_terminate, Over, StoppedRound
        <4>6. CASE pos = 42
          <5>1. locals' = [locals EXCEPT !.cause = Terminated, !.status = 6]
            <6>1. result.cause = Terminated /\ result.status = 6
              BY <4>6 DEF StoppedRound
            <6> QED BY <2>2, <4>6, <6>1 DEF Group_join
          <5>2. /\ locals'.cause = Terminated /\ locals'.status = 6
                /\ locals'.thr_code = locals.thr_code
            BY <5>1 DEF Typed, AnyLocals
          <5> QED BY <2>2, <4>6, <5>2 DEF Group_join, sys_spu_thread_group_join, StoppedRound
        <4> QED BY <2>3, <4>1, <4>2, <4>3, <4>4, <4>5, <4>6 DEF StoppedRound
      <3> QED BY <3>1 DEF RoundsInv
    <2>4. CASE pos = 43
      <3>1. Len(console') = 7
        BY <2>2, <2>4, PutsOne DEF StoppedRound
      <3>2. AskedRound' /\ group' # "none"
        BY <2>2, <2>4, <3>1 DEF PutLine, StoppedRound, AskedRound
      <3> QED BY <3>2 DEF RoundsInv
    <2> QED BY <2>3, <2>4 DEF StoppedRound
  <1> QED BY <1>2, <1>3 DEF Next

\* The last round, and what follows.
LEMMA AskedKept ==
  ASSUME test = "get_exit_status", Typed, Together, AskedRound, group # "none", Next
  PROVE  RoundsInv'
  <1> DEFINE P == get_exit_status
  <1>1. Program = P
    BY ProgramIs
  <1> HIDE DEF P
  <1>2. CASE Thread \/ signal_thread \/ callback
    <2>1. /\ UNCHANGED <<pos, args, locals, console>>
          /\ \/ UNCHANGED <<group, result, code, spu>>
             \/ /\ spu = "main" /\ spu' = "off" /\ group' = "idle"
                /\ result' = EndOf(7) /\ code' = 8
      <3>1. /\ 7 \in 0..7 /\ spu \in {"off", "main"} /\ (spu = "main" => args.arg1 = 7)
            /\ 7 % 2 # 0
        BY DEF AskedRound
      <3> QED BY <1>2, <3>1, RoundsThread
    <2>2. AskedRound' /\ group' # "none"
      BY <2>1 DEF AskedRound
    <2> QED BY <2>2 DEF RoundsInv
  <1>3. CASE Main
    <2>1. PICK op : op = Program[pos].op
      OBVIOUS
    <2>2. /\ pos' = pos + 1
          /\ pos = 44 => Clear
          /\ pos = 45 => Set_argument /\ Program[pos].args = Args(7, 0)
          /\ pos = 46 => Group_start
          /\ pos = 47 => Get_exit_status
          /\ pos = 48 => Group_join
          /\ pos = 49 => PutLine
      BY <1>1, <1>3, <2>1, MainIs, RoundsAre DEF P
    <2> USE DEF lv2, thread
    <2>3. CASE pos < 49
      <3>1. AskedRound' /\ group' # "none"
        <4>1. CASE pos = 44
          BY <2>2, <4>1 DEF Clear, AskedRound
        <4>2. CASE pos = 45
          BY <2>2, <4>2 DEF Set_argument, AskedRound, Args
        <4>3. CASE pos = 46
          BY <2>2, <4>3 DEF Group_start, sys_spu_thread_group_start, AskedRound
        <4>4. CASE pos = 47
          <5>1. locals'.thr_code \in {6, 8}
            BY <2>2, <4>4 DEF Get_exit_status, AskedRound, Typed, AnyLocals
          <5> QED BY <2>2, <4>4, <5>1 DEF Get_exit_status, AskedRound
        <4>5. CASE pos = 48
          <5>1. spu = "off" /\ result = [cause |-> AllExited, status |-> 0]
            <6>1. 7 % 2 # 0
              OBVIOUS
            <6> QED BY <2>2, <4>5, <6>1
                DEF Group_join, sys_spu_thread_group_join, AskedRound, Together, EndOf
          <5>2. /\ locals'.cause = AllExited /\ locals'.status = 0
                /\ locals'.thr_code = locals.thr_code
            BY <2>2, <4>5, <5>1 DEF Group_join, Typed, AnyLocals
          <5> QED BY <2>2, <4>5, <5>1, <5>2 DEF Group_join, sys_spu_thread_group_join, AskedRound
        <4> QED BY <2>3, <4>1, <4>2, <4>3, <4>4, <4>5 DEF AskedRound
      <3> QED BY <3>1 DEF RoundsInv
    <2>4. CASE pos = 49
      <3>1. Len(console') = 8
        BY <2>2, <2>4, PutsOne DEF AskedRound
      <3> QED BY <2>2, <2>4, <3>1 DEF PutLine, AskedRound, RoundsInv
    <2> QED BY <2>3, <2>4 DEF AskedRound
  <1> QED BY <1>2, <1>3 DEF Next

\* All the rounds, and the end.
LEMMA RoundsKept ==
  ASSUME test = "get_exit_status", Typed, Together, RoundsInv, Next
  PROVE  RoundsInv'
  <1>0. pos \in Int
    BY AllLegal DEF Typed, Legal
  <1>1. CASE pos < 50
    <2>1. group # "none"
      BY <1>0, <1>1 DEF RoundsInv
    <2> QED BY <1>1, <2>1, JoinedKept, StoppedKept, AskedKept DEF RoundsInv
  <1>2. CASE pos >= 50
    <2>1. pos \in 50..51 /\ Len(console) = 8 /\ spu = "off"
      BY <1>0, <1>2 DEF RoundsInv, JoinedAt, StoppedRound, AskedRound
    <2>2. CASE Thread \/ signal_thread \/ callback
      <3>1. UNCHANGED <<pos, console, spu, group>>
        BY <2>1, <2>2 DEF Thread, ReturnCount, GroupExitCount, ReadCount, PutCount, PutSrr0, Exit,
           signal_thread, callback, main, lv2, sys_spu_thread_exit, Over, Together
      <3> QED BY <2>1, <3>1 DEF RoundsInv
    <2>3. CASE Main
      <3>1. PICK op : op = Program[pos].op
        OBVIOUS
      <3>2. Program = get_exit_status
        BY ProgramIs
      <3>3. pos = 50 /\ Group_destroy /\ pos' = 51
        BY <2>1, <2>3, <3>1, <3>2, MainIs, RoundsAre DEF Finished
      <3> QED BY <2>1, <3>3 DEF Group_destroy, RoundsInv, thread
    <2> QED BY <2>2, <2>3 DEF Next
  <1> QED BY <1>0, <1>1, <1>2

\* What is shown is expected.
LEMMA RoundsShow ==
  ASSUME test = "get_exit_status", Typed, RoundsInv, At("show")
  PROVE  Shown \in Expected(test)[Len(console) + 1]
  <1>1. Program = get_exit_status /\ ~Finished /\ Program[pos].op = "show"
    BY ProgramIs DEF At
  <1>2. Shown = <<locals.thr_code, locals.status, locals.cause>>
    BY DEF Shown
  <1>3. /\ Expected(test)[1] = {<<Unset, 1, 1>>} /\ Expected(test)[2] = {<<2, 0, 2>>}
        /\ Expected(test)[3] = {<<2, 3, 1>>} /\ Expected(test)[4] = {<<4, 0, 2>>}
        /\ Expected(test)[5] = {<<4, 5, 1>>} /\ Expected(test)[6] = {<<6, 0, 2>>}
        /\ Expected(test)[7] = {<<6, 6, 4>>} /\ Expected(test)[8] = {<<6, 0, 2>>, <<8, 0, 2>>}
    BY DEF Expected
  <1>4. CASE \E i \in 0..5 : \E k \in 1..6 : JoinedAt(i, k)
    <2>1. PICK i \in 0..5, k \in 1..6 : JoinedAt(i, k)
      BY <1>4
    <2>2. k = 6
      <3> DEFINE P == get_exit_status
      <3>1. /\ P[6 * i + 1].op = "clear" /\ P[6 * i + 2].op = "set_argument"
            /\ P[6 * i + 3].op = "start" /\ P[6 * i + 4].op = "join"
            /\ P[6 * i + 5].op = "get_exit_status"
        BY RoundsAre
      <3> HIDE DEF P
      <3>2. P[6 * i + k].op = "show"
        BY <1>1, <2>1 DEF JoinedAt, P
      <3> QED BY <3>1, <3>2
    <2>3. /\ Len(console) + 1 = i + 1
          /\ locals.thr_code = IF i = 0 THEN Unset ELSE CodeBefore(i + 1)
          /\ locals.cause = EndOf(i).cause /\ locals.status = EndOf(i).status
      BY <2>1, <2>2 DEF JoinedAt
    <2>4. CASE i \in {0, 2, 4}
      <3>1. i % 2 = 0 /\ locals.cause = 1 /\ locals.status = i + 1
        BY <2>3, <2>4 DEF EndOf
      <3>2. locals.thr_code = IF i = 0 THEN Unset ELSE i
        <4>1. CodeBefore(3) = 2 /\ CodeBefore(5) = 4 /\ 2 + 1 = 3 /\ 4 + 1 = 5
          BY DEF CodeBefore
        <4> QED BY <2>3, <2>4, <4>1
      <3> QED BY <1>2, <1>3, <2>3, <2>4, <3>1, <3>2
    <2>5. CASE i \in {1, 3, 5}
      <3>1. i % 2 # 0 /\ locals.cause = 2 /\ locals.status = 0
        BY <2>3, <2>5 DEF EndOf
      <3>2. locals.thr_code = i + 1
        BY <2>3, <2>5 DEF CodeBefore
      <3> QED BY <1>2, <1>3, <2>3, <2>5, <3>1, <3>2
    <2> QED BY <2>4, <2>5
  <1>5. CASE StoppedRound
    <2>1. pos = 43
      BY <1>1, <1>5, RoundsAre DEF StoppedRound
    <2> QED BY <1>2, <1>3, <1>5, <2>1 DEF StoppedRound
  <1>6. CASE AskedRound
    <2>1. pos = 49
      BY <1>1, <1>6, RoundsAre DEF AskedRound
    <2>2. Shown \in {<<6, 0, 2>>, <<8, 0, 2>>} /\ Len(console) + 1 = 8
      BY <1>2, <1>6, <2>1 DEF AskedRound
    <2> QED BY <1>3, <2>2
  <1>7. CASE pos \in 50..51
    BY <1>1, <1>7, RoundsAre DEF Finished
  <1> QED BY <1>4, <1>5, <1>6, <1>7 DEF RoundsInv
-----------------------------------------------------------------------------
(* SNR_and_Mailbox_resets.                                                 *)

\* Its thread reads what waits, puts that, and exits unless it is told to stay.
LEMMA ResetsThread ==
  ASSUME test = "SNR_and_Mailbox_resets", Typed, Together, ResetsInv,
         Thread \/ signal_thread \/ callback
  PROVE  ResetsInv'
  <1> USE DEF lv2, main
  <1>1. pos \in Int
    BY AllLegal DEF Typed, Legal
  <1>2. CASE ReadCount
    <2>1. pos \in {4, 7, 15, 18, 26, 29} /\ spu = "main" /\ spu' = "put"
      BY <1>2 DEF ReadCount, ResetsInv
    <2>2. pos # 26 => to_write' = Waiting(pos)
      <3>1. pos \in {4, 7} => args.arg1 = 1
        BY DEF ResetsInv, Args
      <3>2. pos \in {15, 18, 29} => args.arg1 = 2
        BY DEF ResetsInv, Args
      <3> QED BY <1>2, <2>1, <3>1, <3>2 DEF ReadCount, ResetsInv, Waiting
    <2> QED BY <1>1, <1>2, <2>1, <2>2 DEF ReadCount, ResetsInv
  <1>3. CASE PutCount
    <2>1. /\ pos \in {4, 7, 15, 18, 26, 29} /\ spu = "put" /\ ch_cnt' = to_write
          /\ spu' = IF pos = 26 THEN "for_ever" ELSE "exit"
      BY <1>3 DEF PutCount, ResetsInv, Args
    <2> QED BY <1>1, <1>3, <2>1 DEF PutCount, ResetsInv
  <1>4. CASE Exit
    <2>1. pos \in {4, 7, 15, 18, 29} /\ spu = "exit" /\ spu' = "off" /\ group' = "idle" /\ mbox' = 0
      BY <1>4 DEF Exit, Ends, sys_spu_thread_exit, Over, ResetsInv
    <2> QED BY <1>1, <1>4, <2>1 DEF Exit, Ends, sys_spu_thread_exit, Over, ResetsInv
  <1>5. CASE ReturnCount \/ GroupExitCount \/ PutSrr0
    BY <1>5 DEF ReturnCount, GroupExitCount, PutSrr0
  <1>6. CASE signal_thread \/ callback
    <2>1. UNCHANGED <<pos, group, snr, mbox, args, spu, to_write, ch_cnt, console>>
      BY <1>6 DEF signal_thread, callback
    <2> QED BY <2>1 DEF ResetsInv
  <1> QED BY <1>2, <1>3, <1>4, <1>5, <1>6 DEF Thread

\* Main, between its runs.
LEMMA ResetsMain ==
  ASSUME test = "SNR_and_Mailbox_resets", Typed, Together, ResetsInv, Main
  PROVE  ResetsInv'
  <1> DEFINE P == SNR_and_Mailbox_resets
  <1>1. Program = P /\ pos \in 1..31 /\ pos' = pos + 1
    <2>1. Program = P /\ Len(P) = 31
      BY ProgramIs, ResetsAre
    <2>2. ~Finished /\ pos' = pos + 1
      BY MainIs
    <2> QED BY <2>1, <2>2 DEF Finished, Typed
  <1>2. PICK op : op = Program[pos].op
    OBVIOUS
  <1>3. /\ pos = 1 => Write_snr
        /\ pos \in {2, 13, 24, 27} => Set_argument
        /\ pos \in {3, 6, 14, 17, 25, 28} => Group_start
        /\ pos \in {4, 7, 15, 18, 29} => Group_join
        /\ pos \in {5, 8, 16, 19, 30} => PutLine
        /\ pos \in (9..12) \cup (20..23) => Write_spu_mb
        /\ pos = 26 => Group_terminate
        /\ pos = 31 => Group_destroy
    BY <1>1, <1>2, MainIs, ResetsAre
  <1> HIDE DEF P
  <1> USE DEF lv2, thread
  <1>4. CASE pos = 1
    BY <1>1, <1>3, <1>4 DEF Write_snr, sys_spu_thread_write_snr, ResetsInv
  <1>5. CASE pos \in {2, 13, 24, 27}
    <2>1. args' = IF pos = 2 THEN Args(1, 0) ELSE IF pos = 24 THEN Args(2, 1) ELSE Args(2, 0)
      BY <1>1, <1>3, <1>5, ResetsAre DEF Set_argument, P
    <2> QED BY <1>1, <1>3, <1>5, <2>1 DEF Set_argument, ResetsInv
  <1>6. CASE pos \in {3, 6, 14, 17, 25, 28}
    BY <1>1, <1>3, <1>6 DEF Group_start, sys_spu_thread_group_start, ResetsInv
  <1>7. CASE pos \in {4, 7, 15, 18, 29}
    <2>1. spu = "off"
      BY <1>3, <1>7 DEF Group_join, sys_spu_thread_group_join, Together
    <2>2. Waiting(pos) = Waiting(pos + 1)
      BY <1>7 DEF Waiting
    <2>3. UNCHANGED <<group, snr, mbox, args, spu, to_write, ch_cnt, console>>
      BY <1>3, <1>7 DEF Group_join, sys_spu_thread_group_join
    <2>4. to_write = Waiting(pos + 1) /\ ch_cnt = Waiting(pos + 1)
      BY <1>7, <2>1, <2>2 DEF ResetsInv
    <2> QED BY <1>1, <1>7, <2>1, <2>3, <2>4 DEF ResetsInv
  <1>8. CASE pos \in {5, 8, 16, 19, 30}
    <2>1. Len(console') = Len(console) + 1
      BY <1>3, <1>8, PutsOne
    <2> QED BY <1>1, <1>3, <1>8, <2>1 DEF PutLine, ResetsInv
  <1>9. CASE pos \in (9..12) \cup (20..23)
    BY <1>1, <1>3, <1>9 DEF Write_spu_mb, sys_spu_thread_write_spu_mb, ResetsInv
  <1>10. CASE pos = 26
    BY <1>1, <1>3, <1>10 DEF Group_terminate, sys_spu_thread_group_terminate, Over, ResetsInv
  <1>11. CASE pos = 31
    BY <1>1, <1>3, <1>11 DEF Group_destroy, sys_spu_thread_group_destroy, ResetsInv
  <1> QED BY <1>1, <1>4, <1>5, <1>6, <1>7, <1>8, <1>9, <1>10, <1>11

\* What is shown is expected.
LEMMA ResetsShow ==
  ASSUME test = "SNR_and_Mailbox_resets", Typed, ResetsInv, At("show")
  PROVE  ch_cnt = to_write /\ Shown \in Expected(test)[Len(console) + 1]
  <1>1. Program = SNR_and_Mailbox_resets /\ pos \in 1..31 /\ Program[pos].op = "show"
    <2>1. Program = SNR_and_Mailbox_resets /\ Len(SNR_and_Mailbox_resets) = 31
      BY ProgramIs, ResetsAre
    <2> QED BY <2>1 DEF At, Finished, Typed
  <1>2. pos \in {5, 8, 16, 19, 30}
    BY <1>1, ResetsAre
  <1>3. Shown = <<ch_cnt>>
    BY DEF Shown
  <1>4. /\ Expected(test)[1] = {<<1>>} /\ Expected(test)[2] = {<<1>>} /\ Expected(test)[3] = {<<4>>}
        /\ Expected(test)[4] = {<<0>>} /\ Expected(test)[5] = {<<0>>}
    BY DEF Expected
  <1>5. ch_cnt = to_write /\ ch_cnt = Waiting(pos)
    BY <1>2 DEF ResetsInv
  <1>6. Len(console) + 1 = IF pos = 5 THEN 1 ELSE IF pos = 8 THEN 2 ELSE IF pos = 16 THEN 3
                           ELSE IF pos = 19 THEN 4 ELSE 5
    BY <1>2 DEF ResetsInv
  <1> QED BY <1>2, <1>3, <1>4, <1>5, <1>6 DEF Waiting
-----------------------------------------------------------------------------
(* spu_cfg and SRR0_masking.                                               *)

\* The configuration is that of before the run when the run is over.
LEMMA CfgKept ==
  ASSUME test = "spu_cfg", Typed, Together, CfgInv, Next
  PROVE  CfgInv'
  <1>1. Program = spu_cfg /\ Len(spu_cfg) = 6
    BY ProgramIs, OthersAre
  <1>2. pos \in 1..7
    BY <1>1 DEF Typed
  <1>3. CASE Thread \/ signal_thread \/ callback
    <2>1. /\ UNCHANGED <<pos, cfg, console>>
          /\ UNCHANGED <<spu, group>> \/ (spu' = "off" /\ group' = "idle")
      BY <1>3 DEF Thread, ReturnCount, GroupExitCount, ReadCount, PutCount, PutSrr0, Exit, Ends,
         signal_thread, callback, main, lv2, sys_spu_thread_exit, Over, CfgInv
    <2> QED BY <1>2, <2>1 DEF CfgInv
  <1>4. CASE Main
    <2>1. PICK op : op = Program[pos].op
      OBVIOUS
    <2>2. pos' = pos + 1 /\ ~Finished
      BY <1>4, MainIs
    <2>3. /\ pos = 1 => Set_invalid_cfg
          /\ pos = 2 => Set_spu_cfg
          /\ pos = 3 => Group_start
          /\ pos = 4 => Group_join
          /\ pos = 5 => PutLine
          /\ pos = 6 => Group_destroy
      BY <1>1, <1>4, <2>1, MainIs, OthersAre
    <2> USE DEF lv2, thread
    <2>4. CASE pos = 1
      <3>1. Len(console') = Len(console) + 1
        BY <2>3, <2>4, AppendProperties DEF Set_invalid_cfg, Typed
      <3> QED BY <2>2, <2>3, <2>4, <3>1 DEF Set_invalid_cfg, CfgInv
    <2>5. CASE pos = 2
      BY <2>2, <2>3, <2>5 DEF Set_spu_cfg, sys_spu_thread_set_spu_cfg, CfgInv
    <2>6. CASE pos = 3
      BY <2>2, <2>3, <2>6 DEF Group_start, sys_spu_thread_group_start, CfgInv
    <2>7. CASE pos = 4
      BY <2>2, <2>3, <2>7 DEF Group_join, sys_spu_thread_group_join, CfgInv, Together
    <2>8. CASE pos = 5
      BY <2>2, <2>3, <2>8, PutsOne DEF PutLine, CfgInv
    <2>9. CASE pos = 6
      BY <2>2, <2>3, <2>9 DEF Group_destroy, sys_spu_thread_group_destroy, CfgInv
    <2>10. pos # 7
      BY <1>1, <2>2 DEF Finished
    <2> QED BY <1>2, <2>4, <2>5, <2>6, <2>7, <2>8, <2>9, <2>10
  <1> QED BY <1>3, <1>4 DEF Next

\* It is what main has set.
LEMMA CfgShows ==
  ASSUME test = "spu_cfg", Typed, CfgInv, At("show")
  PROVE  Shown \in Expected(test)[Len(console) + 1]
  <1>1. Program = spu_cfg /\ Program[pos].op = "show" /\ pos \in 1..6
    <2>1. Program = spu_cfg /\ Len(spu_cfg) = 6
      BY ProgramIs, OthersAre
    <2> QED BY <2>1 DEF At, Finished, Typed
  <1>2. pos = 5
    BY <1>1, OthersAre
  <1>3. Shown = <<3>> /\ Len(console) + 1 = 2
    BY <1>2 DEF Shown, CfgInv
  <1>4. Expected(test)[2] = {<<3>>}
    BY DEF Expected
  <1> QED BY <1>3, <1>4

\* The thread writes once, before main resets what it has read, and the handler once.
LEMMA Srr0Kept ==
  ASSUME test = "SRR0_masking", Typed, Together, Srr0Inv, Next
  PROVE  Srr0Inv'
  <1>1. Program = SRR0_masking /\ Len(SRR0_masking) = 9
    BY ProgramIs, OthersAre
  <1>2. pos \in 1..10
    BY <1>1 DEF Typed
  <1>3. CASE Thread
    <2>1. PutSrr0
      BY <1>3 DEF Thread, ReturnCount, GroupExitCount, ReadCount, PutCount, Exit, Srr0Inv
    <2> QED BY <1>2, <2>1 DEF PutSrr0, Srr0Inv, main, lv2
  <1>4. CASE signal_thread
    BY <1>2, <1>4 DEF signal_thread, Srr0Inv, main, lv2
  <1>5. CASE callback
    BY <1>2, <1>5 DEF callback, Srr0Inv, main, lv2, Together
  <1>6. CASE Main
    <2>1. PICK op : op = Program[pos].op
      OBVIOUS
    <2>2. pos' = pos + 1 /\ ~Finished
      BY <1>6, MainIs
    <2>3. /\ pos = 1 => Group_start
          /\ pos \in {2, 6} => Await_srr0
          /\ pos \in {3, 7} => PutLine
          /\ pos = 4 => Reset_srr0
          /\ pos = 5 => Thread_create
          /\ pos = 8 => Group_terminate
          /\ pos = 9 => Group_destroy
      BY <1>1, <1>6, <2>1, MainIs, OthersAre
    <2> USE DEF lv2, thread
    <2>4. CASE pos = 1
      BY <2>2, <2>3, <2>4 DEF Group_start, sys_spu_thread_group_start, Srr0Inv
    <2>5. CASE pos \in {2, 6}
      <3>1. srr0 = Masked /\ (pos = 2 => spu = "for_ever") /\ (pos = 6 => signaller = "over")
        BY <2>3, <2>5 DEF Await_srr0, Srr0Inv
      <3>2. locals'.srr0 = Masked
        BY <2>3, <2>5, <3>1 DEF Await_srr0, Typed, AnyLocals
      <3> QED BY <2>2, <2>3, <2>5, <3>1, <3>2 DEF Await_srr0, Srr0Inv
    <2>6. CASE pos \in {3, 7}
      BY <2>2, <2>3, <2>6, PutsOne DEF PutLine, Srr0Inv
    <2>7. CASE pos = 4
      BY <2>2, <2>3, <2>7 DEF Reset_srr0, Srr0Inv
    <2>8. CASE pos = 5
      BY <2>2, <2>3, <2>8 DEF Thread_create, Srr0Inv
    <2>9. CASE pos = 8
      BY <2>2, <2>3, <2>9 DEF Group_terminate, sys_spu_thread_group_terminate, Over, Srr0Inv
    <2>10. CASE pos = 9
      BY <2>2, <2>3, <2>10 DEF Group_destroy, sys_spu_thread_group_destroy, Srr0Inv
    <2>11. pos # 10
      BY <1>1, <2>2 DEF Finished
    <2> QED BY <1>2, <2>4, <2>5, <2>6, <2>7, <2>8, <2>9, <2>10, <2>11
  <1> QED BY <1>3, <1>4, <1>5, <1>6 DEF Next

\* Both are seen.
LEMMA Srr0Shows ==
  ASSUME test = "SRR0_masking", Typed, Srr0Inv, At("show")
  PROVE  Shown \in Expected(test)[Len(console) + 1]
  <1>1. Program = SRR0_masking /\ Program[pos].op = "show" /\ pos \in 1..9
    <2>1. Program = SRR0_masking /\ Len(SRR0_masking) = 9
      BY ProgramIs, OthersAre
    <2> QED BY <2>1 DEF At, Finished, Typed
  <1>2. pos \in {3, 7}
    BY <1>1, OthersAre
  <1>3. Shown = <<Masked>> /\ Len(console) + 1 \in 1..2
    BY <1>2 DEF Shown, Srr0Inv
  <1>4. Expected(test)[1] = {<<Masked>>} /\ Expected(test)[2] = {<<Masked>>}
    BY DEF Expected
  <1> QED BY <1>3, <1>4
-----------------------------------------------------------------------------
(* The tests that show nothing.                                            *)

\* Which instruction is where.
LEMMA SilentAre ==
  ASSUME test \in Silent, pos \in 1..Len(Program), NEW op, op = Program[pos].op
  PROVE  /\ op \in {"start", "join", "terminate", "destroy", "create"}
         /\ op = "start" => pos = 1 \/ (pos = 3 /\ test = "start_after_exit")
         /\ op = "join" => test # "Threaded_SPU_ID"
         /\ op = "terminate" => pos = 2 /\ test = "Threaded_SPU_ID"
         /\ op = "destroy" => pos = Len(Program) \/ (pos = 3 /\ test = "Threaded_SPU_ID")
         /\ op = "destroy" => pos # 2 /\ (pos = 4 => test = "join_after_exit")
         /\ op = "create" => pos = 4 /\ test = "Threaded_SPU_ID" /\ Len(Program) = 5
  <1>1. CASE test = "Threaded_SPU_ID"
    <2>1. /\ Len(Program) = 5 /\ Program[1].op = "start" /\ Program[2].op = "terminate"
          /\ Program[3].op = "destroy" /\ Program[4].op = "create"
          /\ Program[5].op = "destroy"
      <3>1. Program = Threaded_SPU_ID
        BY <1>1, ProgramIs
      <3> QED BY <3>1, OthersAre
    <2> QED BY <1>1, <2>1
  <1>2. CASE test = "join_after_exit"
    <2>1. /\ Len(Program) = 4 /\ Program[1].op = "start" /\ Program[2].op = "join"
          /\ Program[3].op = "join" /\ Program[4].op = "destroy"
      <3>1. Program = join_after_exit
        BY <1>2, ProgramIs
      <3> QED BY <3>1, OthersAre
    <2> QED BY <1>2, <2>1
  <1>3. CASE test = "start_after_exit"
    <2>1. /\ Len(Program) = 5 /\ Program[1].op = "start" /\ Program[2].op = "join"
          /\ Program[3].op = "start" /\ Program[4].op = "join" /\ Program[5].op = "destroy"
      <3>1. Program = start_after_exit
        BY <1>3, ProgramIs
      <3> QED BY <3>1, OthersAre
    <2> QED BY <1>3, <2>1
  <1>4. CASE test \in {"default_stack_pointer_value", "pc_masking"}
    <2>1. /\ Len(Program) = 3 /\ Program[1].op = "start" /\ Program[2].op = "join"
          /\ Program[3].op = "destroy"
      <3>1. Program = RunOnce
        BY <1>4, ProgramIs
      <3> QED BY <3>1, OthersAre
    <2> QED BY <1>4, <2>1
  <1> QED BY <1>1, <1>2, <1>3, <1>4 DEF Silent

\* How many there are.
LEMMA SilentLength == ASSUME test \in Silent PROVE Len(Program) \in 3..5
  BY ProgramIs, OthersAre DEF Silent

\* They run the thread, and end it or wait for its end.
LEMMA SilentKept ==
  ASSUME test \in Silent, Typed, Together, SilentInv, Next
  PROVE  SilentInv'
  <1>1. pos \in 1..(Len(Program) + 1) /\ Len(Program) \in 3..5
    BY SilentLength DEF Typed
  <1>2. Program' = Program /\ test' = test
    BY SameTest
  <1>3. Finished' <=> pos' > Len(Program)
    BY <1>2 DEF Finished
  <1>4. CASE Thread \/ signal_thread \/ callback
    <2>1. /\ UNCHANGED <<pos, console>>
          /\ \/ UNCHANGED <<spu, group>>
             \/ spu = "main" /\ spu' = "off" /\ group' = "idle" /\ test # "Threaded_SPU_ID"
      BY <1>4 DEF Thread, ReturnCount, GroupExitCount, ReadCount, PutCount, PutSrr0, Exit, Ends,
         signal_thread, callback, main, lv2, sys_spu_thread_exit, Over, SilentInv, Silent
    <2> QED BY <1>2, <1>3, <2>1 DEF SilentInv, Finished
  <1>5. CASE Main
    <2>1. PICK op : op = Program[pos].op
      OBVIOUS
    <2>2. pos' = pos + 1 /\ pos \in 1..Len(Program)
      BY <1>1, <1>5, MainIs DEF Finished
    <2>3. op \in {"start", "join", "terminate", "destroy", "create"}
      BY <2>1, <2>2, SilentAre
    <2> USE DEF lv2, thread
    <2>4. CASE op = "start"
      <3>1. Group_start
        BY <1>5, <2>1, <2>4, MainIs
      <3>2. pos = 1 \/ (pos = 3 /\ test = "start_after_exit")
        BY <2>1, <2>2, <2>4, SilentAre
      <3> QED BY <1>2, <1>3, <2>2, <3>1, <3>2
          DEF Group_start, sys_spu_thread_group_start, SilentInv
    <2>5. CASE op = "join"
      <3>1. Group_join
        BY <1>5, <2>1, <2>5, MainIs
      <3>2. test # "Threaded_SPU_ID"
        BY <2>1, <2>2, <2>5, SilentAre
      <3> QED BY <1>2, <1>3, <2>2, <3>1, <3>2
          DEF Group_join, sys_spu_thread_group_join, SilentInv, Together
    <2>6. CASE op = "terminate"
      <3>1. Group_terminate
        BY <1>5, <2>1, <2>6, MainIs
      <3>2. pos = 2
        BY <2>1, <2>2, <2>6, SilentAre
      <3> QED BY <1>2, <1>3, <2>2, <3>1, <3>2
          DEF Group_terminate, sys_spu_thread_group_terminate, Over, SilentInv
    <2>7. CASE op = "destroy"
      <3>1. Group_destroy
        BY <1>5, <2>1, <2>7, MainIs
      <3>2. pos = Len(Program) \/ (pos = 3 /\ test = "Threaded_SPU_ID")
        BY <2>1, <2>2, <2>7, SilentAre
      <3> QED BY <1>1, <1>2, <1>3, <2>2, <3>1, <3>2
          DEF Group_destroy, sys_spu_thread_group_destroy, SilentInv, Together
    <2>8. CASE op = "create"
      <3>1. Group_create
        BY <1>5, <2>1, <2>8, MainIs
      <3>2. pos = 4 /\ test = "Threaded_SPU_ID" /\ Len(Program) = 5
        BY <2>1, <2>2, <2>8, SilentAre
      <3> QED BY <1>2, <1>3, <2>2, <3>1, <3>2 DEF Group_create, Create, SilentInv
    <2> QED BY <2>3, <2>4, <2>5, <2>6, <2>7, <2>8
  <1> QED BY <1>4, <1>5 DEF Next
-----------------------------------------------------------------------------
(* The invariant holds.                                                    *)

\* It does before the first call.
LEMMA InitIs == Init => IInv
  <1> SUFFICES ASSUME Init PROVE IInv
    OBVIOUS
  <1> USE DEF Init, Created
  <1>1. Typed /\ Together
    <2>1. Len(Program) \in Nat
      BY AllLegal DEF Legal
    <2> QED BY <2>1 DEF Typed, Together, Args, AnyArgs, NoLocals, AnyLocals
  <1>2. Lines
    BY DEF Lines
  <1>3. test = "get_exit_status" => RoundsInv
    <2>1. JoinedAt(0, 1)
      BY DEF JoinedAt, CodeBefore
    <2> QED BY <2>1 DEF RoundsInv
  <1>4. ResetsInv /\ CfgInv /\ Srr0Inv /\ SilentInv
    BY DEF ResetsInv, CfgInv, Srr0Inv, SilentInv
  <1> QED BY <1>1, <1>2, <1>3, <1>4 DEF IInv

\* Whatever is shown is expected.
LEMMA AllShow ==
  ASSUME IInv, At("show")
  PROVE  Shown \in Expected(test)[Len(console) + 1]
  <1>1. CASE test \in Silent
    <2>1. pos \in 1..Len(Program)
      BY SilentLength, <1>1 DEF IInv, Typed, At, Finished
    <2> QED BY <1>1, <2>1, SilentAre DEF At
  <1>2. test \in TestNames
    BY TestIsOneOf DEF IInv, Typed
  <1> QED BY <1>1, <1>2, RoundsShow, ResetsShow, CfgShows, Srr0Shows DEF IInv, TestNames, Silent

\* One program sets a configuration that is not valid, as its first call.
LEMMA InvalidFirst ==
  ASSUME IInv, At("set_invalid_cfg")
  PROVE  test = "spu_cfg" /\ pos = 1
  <1>1. pos \in 1..Len(Program) /\ Program[pos].op = "set_invalid_cfg"
    BY AllLegal DEF IInv, Typed, At, Finished, Legal
  <1>2. CASE test = "get_exit_status"
    <2>1. Program = get_exit_status /\ pos \in 1..50
      BY <1>1, <1>2, ProgramIs, RoundsAre
    <2>2. CASE pos \in 1..36
      <3>1. PICK i \in 0..5, k \in 1..6 : pos = 6 * i + k
        BY <2>2, InRounds
      <3> QED BY <1>1, <2>1, <3>1, RoundsAre
    <2> QED BY <1>1, <2>1, <2>2, RoundsAre
  <1>3. CASE test = "SNR_and_Mailbox_resets"
    <2>1. Program = SNR_and_Mailbox_resets /\ Len(SNR_and_Mailbox_resets) = 31
      BY <1>3, ProgramIs, ResetsAre
    <2> QED BY <1>1, <1>3, <2>1, ResetsAre
  <1>4. CASE test = "spu_cfg"
    <2>1. Program = spu_cfg /\ Len(spu_cfg) = 6
      BY <1>4, ProgramIs, OthersAre
    <2> QED BY <1>1, <1>4, <2>1, OthersAre
  <1>5. CASE test = "SRR0_masking"
    <2>1. Program = SRR0_masking /\ Len(SRR0_masking) = 9
      BY <1>5, ProgramIs, OthersAre
    <2> QED BY <1>1, <1>5, <2>1, OthersAre
  <1>6. CASE test \in Silent
    BY <1>1, <1>6, SilentAre
  <1>7. test \in TestNames
    BY TestIsOneOf DEF IInv, Typed
  <1> QED BY <1>2, <1>3, <1>4, <1>5, <1>6, <1>7 DEF TestNames, Silent

\* Only the show and that call change the console.
LEMMA LinesKept ==
  ASSUME IInv, Next
  PROVE  Lines'
  <1>1. test' = test
    BY SameTest
  <1>2. CASE PutLine
    <2>1. At("show") /\ console' = Append(console, Shown) /\ console \in Seq(Seq(Nat))
      BY <1>2 DEF PutLine, IInv, Typed
    <2>2. /\ Len(console') = Len(console) + 1
          /\ \A n \in 1..Len(console) : console'[n] = console[n]
          /\ console'[Len(console) + 1] = Shown
      BY <2>1
    <2>3. Len(console) \in Nat /\ Shown \in Expected(test)[Len(console) + 1]
      BY <2>1, AllShow
    <2> QED BY <1>1, <2>2, <2>3 DEF Lines, IInv
  <1>3. CASE Set_invalid_cfg
    <2>1. test = "spu_cfg" /\ pos = 1
      BY <1>3, InvalidFirst DEF Set_invalid_cfg
    <2>2. Len(console) = 0 /\ console \in Seq(Seq(Nat))
      BY <2>1 DEF IInv, CfgInv, Typed
    <2>3. Len(console') = 1 /\ console'[1] = <<EINVAL>>
      BY <1>3, <2>2, AppendProperties DEF Set_invalid_cfg, set_spu_cfg_result
    <2>4. <<EINVAL>> \in Expected(test)[1]
      BY <2>1 DEF Expected
    <2> QED BY <1>1, <2>3, <2>4 DEF Lines
  <1>4. CASE ~PutLine /\ ~Set_invalid_cfg
    <2>1. console' = console
      BY <1>4 DEF Next, Main, Clear, Set_argument, Write_snr, Write_spu_mb, Group_start,
         Group_terminate, Group_join, Group_destroy, Group_create, Get_exit_status, Set_spu_cfg,
         Await_srr0, Reset_srr0, Thread_create, Thread, ReturnCount, GroupExitCount,
         ReadCount, PutCount, PutSrr0, Exit, Ends, signal_thread, callback, main
    <2> QED BY <1>1, <2>1 DEF Lines, IInv
  <1> QED BY <1>2, <1>3, <1>4

\* Every step keeps it.
LEMMA NextKeeps == IInv /\ [Next]_vars => IInv'
  <1> SUFFICES ASSUME IInv, [Next]_vars PROVE IInv'
    OBVIOUS
  <1>1. CASE Next
    <2>1. Typed' /\ Together'
      BY <1>1, ThreadKeepsTypes, MainKeepsTypes DEF Next, IInv
    <2>2. Lines'
      BY <1>1, LinesKept
    <2>3. test' = test
      BY SameTest
    <2>4. test = "get_exit_status" => RoundsInv'
      BY <1>1, RoundsKept DEF IInv
    <2>5. test = "SNR_and_Mailbox_resets" => ResetsInv'
      BY <1>1, ResetsThread, ResetsMain DEF IInv, Next
    <2>6. test = "spu_cfg" => CfgInv'
      BY <1>1, CfgKept DEF IInv
    <2>7. test = "SRR0_masking" => Srr0Inv'
      BY <1>1, Srr0Kept DEF IInv
    <2>8. test \in Silent => SilentInv'
      BY <1>1, SilentKept DEF IInv
    <2> QED BY <2>1, <2>2, <2>3, <2>4, <2>5, <2>6, <2>7, <2>8 DEF IInv
  <1>2. CASE UNCHANGED vars
    <2> USE <1>2 DEF vars, lv2, main, thread
    <2>1. Typed'
      <3>1. Program' = Program
        BY DEF Program
      <3> QED BY <3>1 DEF IInv, Typed
    <2>2. Together' /\ Lines'
      BY DEF IInv, Together, Lines
    <2>3. /\ test = "get_exit_status" => RoundsInv'
          /\ test = "SNR_and_Mailbox_resets" => ResetsInv'
          /\ test = "spu_cfg" => CfgInv'
          /\ test = "SRR0_masking" => Srr0Inv'
          /\ test \in Silent => SilentInv'
      BY DEF IInv, RoundsInv, JoinedAt, StoppedRound, AskedRound, ResetsInv, CfgInv, Srr0Inv,
         SilentInv, Finished, Program
    <2> QED BY <2>1, <2>2, <2>3 DEF IInv
  <1> QED BY <1>1, <1>2

\* The invariant holds in every state.
LEMMA IInvHolds == Spec => []IInv
  BY InitIs, NextKeeps, PTL DEF Spec
-----------------------------------------------------------------------------
(* What follows.                                                           *)

\* Every variable keeps its type: main stays in its program, no more than fits waits in
\* the mailbox, and a result is one that the tests give.
THEOREM TypeCorrectness == Spec => []TypeOK
  <1>1. IInv => TypeOK
    BY DEF IInv, Typed, TypeOK, AnyArgs
  <1> QED BY <1>1, IInvHolds, PTL

\* In no state is main at a call that would fail: a group it starts is over, one it
\* terminates runs, the mailbox it writes to has room, what it destroys does not run.
LEMMA CallsSucceed == IInv => NoCallFails
  <1> SUFFICES ASSUME IInv PROVE NoCallFails
    OBVIOUS
  <1>1. test \in TestNames
    BY TestIsOneOf DEF IInv, Typed
  <1>2. group = "idle" <=> (spu = "off" /\ group # "none")
    BY DEF IInv, Typed, Together
  <1>3. CASE test = "get_exit_status"
    <2> DEFINE P == get_exit_status
    <2>1. Program = P /\ Len(P) = 50
      BY <1>3, ProgramIs, RoundsAre
    <2>2. CASE pos \in 50..51
      <3>1. P[50].op = "destroy"
        BY RoundsAre
      <3>2. spu = "off" /\ (pos < 51 => group # "none")
        BY <1>3, <2>2 DEF IInv, RoundsInv, JoinedAt, StoppedRound, AskedRound
      <3> QED BY <1>2, <2>1, <2>2, <3>1, <3>2 DEF NoCallFails, At, Finished
    <2>3. CASE StoppedRound
      <3>1. /\ \A n \in 37..43 : P[n].op \notin {"write_spu_mb", "destroy"}
            /\ \A n \in 37..43 : P[n].op = "start" => n = 39
            /\ \A n \in 37..43 : P[n].op = "terminate" => n = 41
        BY RoundsAre
      <3>2. pos \in 37..43 /\ spu = IF pos \in 40..41 THEN "main" ELSE "off"
        BY <2>3 DEF StoppedRound
      <3>3. group # "none"
        BY <1>3, <3>2 DEF IInv, RoundsInv
      <3> HIDE DEF P
      <3> QED BY <1>2, <2>1, <3>1, <3>2, <3>3 DEF NoCallFails, At, IInv, Together
    <2>4. CASE AskedRound
      <3>1. /\ \A n \in 44..49 : P[n].op \notin {"write_spu_mb", "destroy", "terminate"}
            /\ \A n \in 44..49 : P[n].op = "start" => n = 46
        BY RoundsAre
      <3>2. pos \in 44..49 /\ (pos = 46 => spu = "off")
        BY <2>4 DEF AskedRound
      <3>3. group # "none"
        BY <1>3, <3>2 DEF IInv, RoundsInv
      <3> HIDE DEF P
      <3> QED BY <1>2, <2>1, <3>1, <3>2, <3>3 DEF NoCallFails, At
    <2>5. CASE \E i \in 0..5 : \E k \in 1..6 : JoinedAt(i, k)
      <3>1. PICK i \in 0..5, k \in 1..6 : JoinedAt(i, k)
        BY <2>5
      <3>2. /\ P[6 * i + 1].op = "clear" /\ P[6 * i + 2].op = "set_argument"
            /\ P[6 * i + 3].op = "start" /\ P[6 * i + 4].op = "join"
            /\ P[6 * i + 5].op = "get_exit_status" /\ P[6 * i + 6].op = "show"
        BY RoundsAre
      <3> HIDE DEF P
      <3>3. pos = 6 * i + k /\ (k = 3 => spu = "off")
        BY <3>1 DEF JoinedAt
      <3>4. group # "none"
        BY <1>3, <3>3 DEF IInv, RoundsInv
      <3>5. /\ P[pos].op \notin {"write_spu_mb", "destroy", "terminate"}
            /\ P[pos].op = "start" => k = 3
        BY <3>2, <3>3
      <3> QED BY <1>2, <2>1, <3>3, <3>4, <3>5 DEF NoCallFails, At
    <2> QED BY <1>3, <2>2, <2>3, <2>4, <2>5 DEF IInv, RoundsInv
  <1>4. CASE test = "SNR_and_Mailbox_resets"
    <2> DEFINE P == SNR_and_Mailbox_resets
    <2>1. Program = P /\ Len(P) = 31
      BY <1>4, ProgramIs, ResetsAre
    <2>2. /\ \A n \in 1..31 : P[n].op = "start" => n \in {3, 6, 14, 17, 25, 28}
          /\ \A n \in 1..31 : P[n].op = "terminate" => n = 26
          /\ \A n \in 1..31 : P[n].op = "write_spu_mb" => n \in (9..12) \cup (20..23)
          /\ \A n \in 1..31 : P[n].op = "destroy" => n = 31
      BY ResetsAre
    <2>3. pos \in 1..32
      BY <2>1 DEF IInv, Typed
    <2>4. /\ pos < 32 => group # "none"
          /\ pos \in {3, 6, 14, 17, 25, 28, 31} => spu = "off"
          /\ pos = 26 => spu # "off"
          /\ pos \in 9..12 => mbox = pos - 9
          /\ pos \in 20..23 => mbox = pos - 20
      BY <1>4, <2>3 DEF IInv, ResetsInv
    <2> HIDE DEF P
    <2> QED BY <1>2, <2>1, <2>2, <2>3, <2>4 DEF NoCallFails, At, Finished, IInv, Together
  <1>5. CASE test = "spu_cfg"
    <2>1. Program = spu_cfg /\ pos \in 1..7
      <3>1. Program = spu_cfg /\ Len(spu_cfg) = 6
        BY <1>5, ProgramIs, OthersAre
      <3> QED BY <3>1 DEF IInv, Typed
    <2>2. (pos < 7 => group # "none") /\ (pos # 4 => spu = "off")
      BY <1>5 DEF IInv, CfgInv
    <2> QED BY <1>2, <2>1, <2>2, OthersAre DEF NoCallFails, At, Finished
  <1>6. CASE test = "SRR0_masking"
    <2>1. Program = SRR0_masking /\ pos \in 1..10
      <3>1. Program = SRR0_masking /\ Len(SRR0_masking) = 9
        BY <1>6, ProgramIs, OthersAre
      <3> QED BY <3>1 DEF IInv, Typed
    <2>2. (pos < 10 => group # "none") /\ (spu = "off" <=> pos \notin 2..8)
      BY <1>6, <2>1 DEF IInv, Srr0Inv
    <2> QED BY <1>2, <2>1, <2>2, OthersAre DEF NoCallFails, At, Finished, IInv, Together
  <1>7. CASE test \in Silent
    <2>1. CASE Finished
      BY <2>1 DEF NoCallFails, At
    <2>2. CASE ~Finished
      <3>1. PICK op : op = Program[pos].op
        OBVIOUS
      <3>2. pos \in 1..Len(Program)
        BY <1>7, <2>2, SilentLength DEF IInv, Typed, Finished
      <3>3. /\ op # "write_spu_mb"
            /\ op = "start" => pos = 1 \/ (pos = 3 /\ test = "start_after_exit")
            /\ op = "terminate" => pos = 2 /\ test = "Threaded_SPU_ID"
            /\ op = "destroy" => pos # 2 /\ (pos = 4 => test = "join_after_exit")
        BY <1>7, <3>1, <3>2, SilentAre
      <3>4. SilentInv
        BY <1>7 DEF IInv
      <3>5. op = "terminate" => group = "running"
        BY <3>3, <3>4 DEF SilentInv, IInv, Together
      <3>6. op \in {"start", "destroy"} => spu = "off" /\ group # "none"
        BY <2>2, <3>2, <3>3, <3>4 DEF SilentInv
      <3> QED BY <1>2, <3>1, <3>3, <3>5, <3>6 DEF NoCallFails, At
    <2> QED BY <2>1, <2>2
  <1> QED BY <1>1, <1>3, <1>4, <1>5, <1>6, <1>7 DEF TestNames, Silent

\* No call of a main fails and each line is one the console shows, whatever the thread
\* has done by then: asked while the thread of the last round exits, the status is that
\* of the exit before or of this one, and nothing else.
THEOREM ConsolesMatch == Spec => []AsOnTheConsole
  <1>1. IInv => AsOnTheConsole
    <2> SUFFICES ASSUME IInv PROVE AsOnTheConsole
      OBVIOUS
    <2>1. DOMAIN console = 1..Len(console)
      BY DEF IInv, Typed
    <2> QED BY <2>1, CallsSucceed DEF AsOnTheConsole, IInv, Lines
  <1> QED BY <1>1, IInvHolds, PTL

\* A count that is shown is the one the run just joined has read; that a terminated run,
\* or one before, has put another does not matter.
THEOREM CountsAreOfThisRun == Spec => []ShowsThisRun
  <1>1. IInv => ShowsThisRun
    BY ResetsShow DEF IInv, ShowsThisRun
  <1> QED BY <1>1, IInvHolds, PTL
=============================================================================
