---------------------------- MODULE SpuEventTests ----------------------------
(***************************************************************************)
(* The tests of spu_events, and those of the event status beside them.     *)
(* Main starts a thread and joins it; the thread is a few instructions     *)
(* that race the decrementer, the tag status and main's writes to its      *)
(* mailbox, with an interrupt handler at address 0.                        *)
(***************************************************************************)
EXTENDS Naturals, Sequences

CONSTANT Tests   \* the tests to run

VARIABLES group, result, code, mbox, snr, cfg   \* see SpuThreadGroup
INSTANCE SpuThreadGroup

VARIABLES dec, pending, mask, count, ie, srr0, tagmask, update, outmbox
INSTANCE SpuChannels

VARIABLES test,     \* the test that runs
          main,     \* where its main is
          spu,      \* "off", "running", "stopped" or "exited"
          pc,       \* the thread's next instruction
          r81, r82, \* registers: the interrupts, and what the handler read
          console   \* what the thread has printed: pairs of a name and a value

lv2 == <<group, result, code, mbox, snr, cfg>>
channels == <<dec, pending, mask, count, ie, srr0, tagmask, update, outmbox>>
thread == <<spu, pc, r81, r82, console>>
vars == <<lv2, channels, test, main, thread>>
-----------------------------------------------------------------------------
(* The instructions.  Branches are to a place in the code. *)

I(op) == [op |-> op]
Write(channel, value) == [op |-> channel, value |-> value]
To(op, target) == [op |-> op, target |-> target]

Dec == Write("WrDec", "positive")
Mask(events) == Write("WrEventMask", events)
Ack(events) == Write("WrEventAck", events)
Read == I("RdEventStat")
AwaitEvent == I("await event")      \* while (spu_readchcnt(SPU_RdEventStat) == 0){}
AwaitNegative == I("await negative")
Forever == I("for ever")
Ienable == I("ienable")
Idisable == I("idisable")
Done == [op |-> "print", name |-> "done"]
Show(name) == [op |-> "print", name |-> name]
ReadAndShow == I("read and print")
Exit == I("exit")
Count81 == I("ai 81")
Srr0To82 == I("rdch 82 SRR0")
MaskTo82 == I("rdch 82 TagMask")
Iret == I("iret")
Stop == I("stop")   \* an instruction that is 0x3f00

Test(code_, handler) == [main |-> code_, handler |-> handler]
-----------------------------------------------------------------------------
(* The threads.  spu_ack_events at their start finds no event. *)

AwaitTm == <<Dec, Mask({Tm}), AwaitEvent>>

tm_event == Test(AwaitTm \o <<Done, Exit>>, <<>>)

tm_event_independent == Test(AwaitTm \o <<Ack({Tm}), Read, AwaitEvent, Done, Exit>>, <<>>)

tm_event_decrementer_stop ==
  Test(AwaitTm \o <<Mask({}), Ack({Tm}), AwaitEvent, Done, Exit>>, <<>>)

\* The value that is written again is negative.
tm_event_negative_decrementer ==
  Test(AwaitTm \o <<Ack({Tm}), Read, I("rewrite dec"), AwaitEvent, Done, Exit>>, <<>>)

decrement_event_stat_count == Test(<<Dec, Mask({Tm}), Forever>>, <<>>)

event_acking_channel_count == Test(AwaitTm \o <<Ack({Tm}), Show("count"), Done, Exit>>, <<>>)

interrupt_and_count == Test(<<Dec, Mask({Tm}), Ienable, AwaitEvent, Done, Exit>>, <<Iret>>)

interrupts_timing == Test(<<Dec, Mask({Tm}), Ienable, Forever>>, <<Stop>>)

interrupts_timing_2 == Test(<<Mask({}), Ienable, Dec, Mask({Tm}), Forever>>, <<Stop>>)

\* Mutant: one instruction too many is skipped.
IfEvent_SkipsTwo(at) == To("branch if no event", at + 3)

\* "if (spu_readchcnt(SPU_RdEventStat))": the instruction after it is skipped.
IfEvent(at) == To("branch if no event", at + 2)

\* Mutant: the interrupt is enabled late, after the event was read.
interrupts_timing_copy_copy_late ==
  Test(<<Dec, Mask({}), AwaitNegative, Mask({Tm}), Read, Ienable, Count81,
         Show("srr0"), Show("count"), Show("r81"), Show("r82"),
         IfEvent(12), ReadAndShow, Exit>>,
       <<Count81, Srr0To82, Iret>>)

interrupts_timing_copy_copy ==
  Test(<<Ienable, Dec, Mask({}), AwaitNegative, Mask({Tm}), Read, Count81,
         Show("srr0"), Show("count"), Show("r81"), Show("r82"),
         IfEvent(12), ReadAndShow, Exit>>,
       <<Count81, Srr0To82, Iret>>)

interrupts_timing_copy_1 ==
  Test(<<Ienable, Dec, Mask({Tm}), Write("WrTagMask", 20), AwaitEvent, Idisable,
         Show("srr0"), Show("r82"), Show("tagmask"), Show("count"), Show("r81"),
         IfEvent(12), ReadAndShow, Exit>>,
       <<Count81, Write("WrTagMask", 30), MaskTo82, I("iretd")>>)

interrupts_timing_copy ==
  Test(<<Ienable, Dec, Mask({Tm}), AwaitEvent, Idisable,
         Show("srr0"), Show("r82"), Show("count"), Show("r81"),
         IfEvent(10), ReadAndShow, Exit>>,
       <<Count81, Iret>>)

\* "suppose to stall by the docs sinc the event already occured"
read_event_stalling == Test(AwaitTm \o <<Read, Mask({Tm}), Read, Done, Exit>>, <<>>)

read_event_stalling_2 ==
  Test(<<Mask({Tg}), Ack({Tg}), Write("WrTagUpdate", "immediate"), AwaitEvent,
         ReadAndShow, Exit>>, <<>>)

\* Mutant: interrupts are enabled after the read.
read_event_stalling_3_late ==
  Test(<<Dec, Mask({Tm}), Read, Ienable, Idisable,
         Show("srr0"), Show("r82"), Show("count"), Show("r81"), Exit>>,
       <<Count81, Iret>>)

\* Nothing sets register 82, nor 83, whose line is left out.
read_event_stalling_3 ==
  Test(<<Ienable, Dec, Mask({Tm}), Read, Idisable,
         Show("srr0"), Show("r82"), Show("count"), Show("r81"), Exit>>,
       <<Count81, Iret>>)

\* The one beside spu_events, where interrupts are not enabled.
read_event_acked ==
  Test(<<Dec, Mask({Tm}), Read, Ack({}), Ack(Events), Idisable,
         Show("srr0"), Show("r82"), ReadAndShow, Show("r81"), Exit>>,
       <<Count81, Iret>>)

tg_event_zero_mask ==
  Test(<<Write("WrTagMask", 0), Write("WrTagUpdate", "any"), Mask({Tg}),
         To("branch if event", 7), Write("WrTagMask", 99), To("branch", 4), Done, Exit>>, <<>>)

mailbox_reaches_limits == Test(<<Forever>>, <<>>)
mailbox_reaches_limits_1 == Test(<<I("WrOutMbox"), I("WrOutMbox"), Done, Exit>>, <<>>)
\* Mutant: the value is not written, as in the test's other picture.
outmbox_reaches_limit_empty == Test(<<I("yield"), Done, Exit>>, <<>>)

\* "stop 0x100" yields, and is not passed while there is a value in the mailbox:
\* "spu stuck" (results_out_not_empty.PNG; without the write result_out_empty.PNG).
outmbox_reaches_limit == Test(<<I("WrOutMbox"), I("yield"), Done, Exit>>, <<>>)

Threads ==
  [tm_event |-> tm_event, tm_event_independent |-> tm_event_independent,
   tm_event_decrementer_stop |-> tm_event_decrementer_stop,
   tm_event_negative_decrementer |-> tm_event_negative_decrementer,
   decrement_event_stat_count |-> decrement_event_stat_count,
   event_acking_channel_count |-> event_acking_channel_count,
   interrupt_and_count |-> interrupt_and_count, interrupts_timing |-> interrupts_timing,
   interrupts_timing_2 |-> interrupts_timing_2,
   interrupts_timing_copy_copy |-> interrupts_timing_copy_copy,
   interrupts_timing_copy_1 |-> interrupts_timing_copy_1,
   interrupts_timing_copy |-> interrupts_timing_copy,
   read_event_stalling |-> read_event_stalling,
   read_event_stalling_2 |-> read_event_stalling_2,
   read_event_stalling_3 |-> read_event_stalling_3, read_event_acked |-> read_event_acked,
   tg_event_zero_mask |-> tg_event_zero_mask,
   mailbox_reaches_limits |-> mailbox_reaches_limits,
   mailbox_reaches_limits_1 |-> mailbox_reaches_limits_1,
   outmbox_reaches_limit |-> outmbox_reaches_limit]

ASSUME SpuEventTestsAssumption == Tests \subseteq DOMAIN Threads

FillsMailbox == {"mailbox_reaches_limits", "mailbox_reaches_limits_1"}

\* What may be in a register that no instruction has set.
Unset == 0..1

Init == /\ Created /\ Reset
        /\ test \in Tests
        /\ main = "start" /\ spu = "off"
        /\ pc = [in |-> "main", at |-> 1]
        /\ r81 = 0 /\ r82 \in Unset /\ console = <<>>
-----------------------------------------------------------------------------
(* Main. *)

Start == /\ main = "start"
         /\ sys_spu_thread_group_start
         /\ spu' = "running"
         /\ main' = IF test \in FillsMailbox THEN "fill" ELSE "join"
         /\ UNCHANGED <<channels, test, pc, r81, r82, console>>

\* while (sys_spu_thread_write_spu_mb(thr_id, 9) == 0){}
Fill == /\ main = "fill"
        /\ sys_spu_thread_write_spu_mb
        /\ UNCHANGED <<channels, test, main, thread>>

Filled == /\ main = "fill" /\ mbox = MboxDepth
          /\ main' = "join"
          /\ UNCHANGED <<lv2, channels, test, thread>>

JoinGroup == /\ main = "join"
             /\ sys_spu_thread_group_join
             /\ main' = "destroy"
             /\ UNCHANGED <<channels, test, thread>>

DestroyGroup == /\ main = "destroy"
                /\ sys_spu_thread_group_destroy
                /\ main' = "returned"
                /\ UNCHANGED <<channels, test, thread>>

Main == Start \/ Fill \/ Filled \/ JoinGroup \/ DestroyGroup
-----------------------------------------------------------------------------
(* The thread. *)

Code == Threads[test]
Instruction == Code[pc.in][pc.at]

\* "interrupts checks occur after every instruction"
Fetch(op) == spu = "running" /\ ~Interrupted /\ Instruction.op = op

Goto(at) == pc' = [pc EXCEPT !.at = at]
Advance == Goto(pc.at + 1) /\ UNCHANGED <<lv2, test, main, spu>>
Registers == UNCHANGED <<r81, r82, console>>

WriteChannel == /\ \/ Fetch("WrDec") /\ WrDec(Instruction.value)
                   \/ Fetch("rewrite dec") /\ WrDec(dec)
                   \/ Fetch("WrEventMask") /\ WrEventMask(Instruction.value)
                   \/ Fetch("WrEventAck") /\ WrEventAck(Instruction.value)
                   \/ Fetch("WrTagMask") /\ WrTagMask(Instruction.value)
                   \/ Fetch("WrTagUpdate") /\ WrTagUpdate(Instruction.value)
                   \/ Fetch("WrOutMbox") /\ WrOutMbox
                   \/ Fetch("ienable") /\ SetInterrupts(TRUE)
                   \/ Fetch("idisable") /\ SetInterrupts(FALSE)
                /\ Advance /\ Registers

ReadChannel == /\ \/ Fetch("RdEventStat") /\ UNCHANGED console
                  \/ /\ Fetch("read and print")
                     /\ console' = Append(console, <<"events", pending \cap mask>>)
               /\ RdEventStat
               /\ Advance /\ UNCHANGED <<r81, r82>>

Await == /\ \/ Fetch("await event") /\ count = 1
            \/ Fetch("await negative") /\ dec = "negative"
            \/ Fetch("yield") /\ outmbox = 0
         /\ Advance /\ Registers /\ UNCHANGED channels

Branch == /\ \/ Fetch("branch")
             \/ Fetch("branch if event") /\ count = 1
             \/ Fetch("branch if no event") /\ count = 0
          /\ Goto(Instruction.target)
          /\ Registers /\ UNCHANGED <<lv2, channels, test, main, spu>>

DoNotBranch == /\ \/ Fetch("branch if event") /\ count = 0
                  \/ Fetch("branch if no event") /\ count = 1
               /\ Advance /\ Registers /\ UNCHANGED channels

Value(name) == CASE name = "srr0" -> srr0
                 [] name = "count" -> count
                 [] name = "tagmask" -> tagmask
                 [] name = "r81" -> r81
                 [] name = "r82" -> r82
                 [] name = "done" -> 0

PrintLine == /\ Fetch("print")
             /\ console' = Append(console, <<Instruction.name, Value(Instruction.name)>>)
             /\ Advance /\ UNCHANGED <<channels, r81, r82>>

SetRegister == /\ \/ Fetch("ai 81") /\ r81' = r81 + 1 /\ UNCHANGED r82
                  \/ Fetch("rdch 82 SRR0") /\ r82' = srr0 /\ UNCHANGED r81
                  \/ Fetch("rdch 82 TagMask") /\ r82' = tagmask /\ UNCHANGED r81
               /\ Advance /\ UNCHANGED <<channels, console>>

TakeInterrupt == /\ spu = "running"
                 /\ Interrupt(pc.at)
                 /\ pc' = [in |-> "handler", at |-> 1]
                 /\ Registers /\ UNCHANGED <<lv2, test, main, spu>>

\* Mutant: the handlers end with irete, as a comment says was also tried.
Return_irete == /\ Fetch("iret") \/ Fetch("iretd")
                /\ SetInterrupts(TRUE)
                /\ pc' = [in |-> "main", at |-> srr0]
                /\ Registers /\ UNCHANGED <<lv2, test, main, spu>>

Return == /\ \/ Fetch("iret") /\ UNCHANGED channels
             \/ Fetch("iretd") /\ SetInterrupts(FALSE)
          /\ pc' = [in |-> "main", at |-> srr0]
          /\ Registers /\ UNCHANGED <<lv2, test, main, spu>>

ExitThread == /\ Fetch("exit")
              /\ sys_spu_thread_exit(0)
              /\ spu' = "exited"
              /\ Registers /\ UNCHANGED <<channels, test, main, pc>>

StopThread == /\ Fetch("stop")
              /\ spu' = "stopped"
              /\ Registers /\ UNCHANGED <<lv2, channels, test, main, pc>>

Thread == \/ WriteChannel \/ ReadChannel \/ Await \/ Branch \/ DoNotBranch
          \/ PrintLine \/ SetRegister \/ TakeInterrupt \/ Return
          \/ ExitThread \/ StopThread

\* The decrementer runs and the MFC works while the thread does.
Device(step) == spu = "running" /\ step /\ UNCHANGED <<lv2, test, main, thread>>

\* A round of the decrementer takes a minute: the thread has to wait for that.
Waits == \/ Fetch("await event") \/ Fetch("RdEventStat") \/ Fetch("read and print")
         \/ Fetch("for ever")

Next == \/ Main \/ Thread
        \/ Device(Expire) \/ Device(UpdateTag)
        \/ Waits /\ count = 0 /\ Device(Wrap)

\* Both processors run, a decrementer becomes negative in time and the MFC
\* serves its requests.  No test waits for the decrementer to go round.
Spec == /\ Init /\ [][Next]_vars
        /\ WF_vars(Main) /\ WF_vars(Thread)
        /\ WF_vars(Device(Expire)) /\ WF_vars(Device(UpdateTag))
-----------------------------------------------------------------------------
Longest == 14

TypeOK == /\ group \in {"none", "idle", "running"} /\ mbox \in 0..MboxDepth
          /\ dec \in {"off", "positive", "negative"}
          /\ pending \subseteq Events /\ mask \subseteq Events
          /\ count \in 0..1 /\ ie \in BOOLEAN /\ srr0 \in 0..Longest
          /\ tagmask \in {0, 20, 30, 99} /\ update \in {NoUpdate, "any", "immediate"}
          /\ outmbox \in 0..1
          /\ test \in Tests /\ main \in {"start", "fill", "join", "destroy", "returned"}
          /\ spu \in {"off", "running", "stopped", "exited"}
          /\ pc.in \in {"main", "handler"} /\ pc.at \in DOMAIN Code[pc.in]
          /\ r81 \in 0..2 /\ r82 \in 0..30

\* What each test is described to end as; five ask what the results do not say.
Asking == {"tm_event_independent", "tm_event_negative_decrementer",
           "tm_event_decrementer_stop", "read_event_acked", "mailbox_reaches_limits_1"}
Stopping == {"interrupts_timing", "interrupts_timing_2"}
Staying == {"decrement_event_stat_count",
            "mailbox_reaches_limits", "outmbox_reaches_limit"}
Exiting == DOMAIN Threads \ (Asking \cup Stopping \cup Staying)

\* The lines printed, where the results say what they are.  The interrupt comes
\* once, right after the instruction that unmasks or receives the event and
\* before its read, and neither it nor an acknowledgement takes the count.
Lines ==
  [event_acking_channel_count |-> {<<<<"count", 1>>, <<"done", 0>>>>},
   interrupts_timing_copy_copy |->
     {<<<<"srr0", 6>>, <<"count", 0>>, <<"r81", 2>>, <<"r82", 6>>>>},
   interrupts_timing_copy_1 |->
     {<<<<"srr0", at>>, <<"r82", 30>>, <<"tagmask", IF at = 4 THEN 20 ELSE 30>>,
        <<"count", 1>>, <<"r81", 1>>, <<"events", {Tm}>>>> : at \in {4, 5}},
   interrupts_timing_copy |->
     {<<<<"srr0", 4>>, <<"r82", unset>>, <<"count", 1>>, <<"r81", 1>>, <<"events", {Tm}>>>> :
        unset \in Unset},
   read_event_stalling_2 |-> {<<<<"events", {Tg}>>>>},
   read_event_stalling_3 |->
     {<<<<"srr0", 4>>, <<"r82", unset>>, <<"count", 0>>, <<"r81", 1>>>> : unset \in Unset}]

\* A thread that is interrupted, awaits or reads events that were acknowledged,
\* unmasked or read before, or yields with its mailbox full ends as the comments and results of its
\* test say, having printed that, whenever the events arrive, and main joins those
\* that exit.
EndsAsDescribed ==
  <>[](/\ test \in Exiting => spu = "exited" /\ main = "returned"
       /\ test \in DOMAIN Lines => console \in Lines[test]
       /\ test \in Stopping => spu = "stopped" /\ console = <<>>
       /\ test \in Staying => spu = "running" /\ main = "join" /\ console = <<>>)
=============================================================================
