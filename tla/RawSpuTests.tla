----------------------------- MODULE RawSpuTests -----------------------------
(***************************************************************************)
(* The tests of raw SPUs.  Main starts the SPU through its registers and   *)
(* polls them; in two tests an interrupt thread runs beside it.            *)
(***************************************************************************)
EXTENDS Naturals, Sequences

CONSTANT Tests   \* the tests to run

VARIABLES status, npc, inmbox, outmbox, intrmbox, intstat,
          command, args, proxy, ls, buf   \* see RawSpu
INSTANCE RawSpu

VARIABLES test,     \* the test that runs
          main,     \* main's next instruction
          spu,      \* the SPU's next instruction
          handler,  \* where the interrupt thread is
          count,    \* g_interrupt_count, or how often it ran
          console   \* what main has printed

raw == <<status, npc, inmbox, outmbox, intrmbox, intstat, command, args, proxy, ls, buf>>
vars == <<raw, test, main, spu, handler, count, console>>
-----------------------------------------------------------------------------
(* The programs. *)

I(op) == [op |-> op]
Arg(op, value) == [op |-> op, value |-> value]
Say(text) == Arg("print", text)
Unless(condition, target) == [op |-> "unless", condition |-> condition, target |-> target]
Goto(target) == [op |-> "goto", target |-> target]
Await(condition) == Arg("await", condition)
Start == <<I("run"), Await("running")>>
Return == I("return")

mailbox_interrupts ==
  Start \o <<Say("raw thread is running"), Await("not running"),
             Say("raw thread has stopped"), Return>>

\* "sys_timer_sleep(2)": two seconds are enough for the interrupt thread.
mailbox_interrupts_2 ==
  Start \o <<Say("raw thread is running"), Await("stopped"), Await("quiet"),
             I("print count"), Return>>

\* ppu interrupt thread stack base: it does not wait for the interrupt thread.
interrupt_stack_base == Start \o <<Await("not running"), Return>>

restarting_status_bits ==
  Start \o <<Say("raw thread is running"),
             Unless("running", 8), Unless("word", 4), I("read word"), Goto(4),
             Say("raw thread has stopped"), Return>>

blocked_channel ==
  Start \o <<Say("raw thread is running"),
             Unless("running", 10), Unless("blocked", 4),
             Say("spu is waiting on a blocked channel"),
             Unless("blocked", 4), I("write in mbox"), Goto(7), Return>>

default_stack_pointer == blocked_channel
tm_event == blocked_channel

default_stack_pointer_copy == <<I("run"), Await("word"), I("read word"), Return>>

no_handler == Start \o <<Say("raw thread is running"), Await("not running"),
                         Say("raw thread has stopped"), Return>>

\* The second result takes what is read last, so the read after the start is
\* left out, and the third is not assigned.
npc_writes == <<Arg("write npc", LsSize + 4 + 2), I("print npc"), Arg("write npc", 4)>> \o Start
              \o <<Arg("write npc", 4), I("print npc"), Say(0), Return>>

\* mfc_proxy_args and mfc_proxy_wait.
Proxy(c) == <<I("write args"), Arg("write command", c), Await("queue empty")>>

\* Mutant: the queue is not waited for after the status is read.
mfc_proxy_NoWait ==
  <<Arg("store ls", 0), Arg("fill buf", 255)>> \o Proxy("get") \o <<I("print ls"), Arg("fill buf", 128)>>
  \o Proxy("put") \o <<I("print buf"), I("read status"), I("print buf"),
     Arg("write command", "put"), I("read status"), I("write args"), I("read status"),
     Await("queue empty"), Return>>

mfc_proxy ==
  <<Arg("store ls", 0), Arg("fill buf", 255)>> \o Proxy("get") \o <<I("print ls"), Arg("fill buf", 128)>>
  \o Proxy("put") \o <<I("print buf"), I("read status"), Await("queue empty"), I("print buf"),
     Arg("write command", "put"), I("read status"), I("write args"), I("read status"),
     Await("queue empty"), Return>>

Mains == [mailbox_interrupts |-> mailbox_interrupts, mailbox_interrupts_2 |-> mailbox_interrupts_2,
          restarting_status_bits |-> restarting_status_bits,
          interrupt_stack_base |-> interrupt_stack_base,
          default_stack_pointer |-> default_stack_pointer, tm_event |-> tm_event,
          default_stack_pointer_copy |-> default_stack_pointer_copy,
          no_handler |-> no_handler, npc_writes |-> npc_writes, mfc_proxy |-> mfc_proxy]

Blocks == <<"RdInMbox", "for ever">>
Spus == [mailbox_interrupts |-> <<"WrOutIntrMbox", "WrOutIntrMbox", "stop">>,
         mailbox_interrupts_2 |-> <<"WrOutIntrMbox", "stop">>,
         restarting_status_bits |-> <<"WrOutMbox", "stop">>,
         interrupt_stack_base |-> <<"WrOutIntrMbox", "stop">>,
         default_stack_pointer |-> Blocks, tm_event |-> Blocks,
         default_stack_pointer_copy |-> <<"WrOutMbox", "stop">>,
         no_handler |-> <<"for ever">>, npc_writes |-> <<"for ever">>, mfc_proxy |-> <<"for ever">>]

ASSUME RawSpuTestsAssumption == Tests \subseteq DOMAIN Mains

Establish == {"mailbox_interrupts", "mailbox_interrupts_2", "interrupt_stack_base"}
Instruction == Mains[test][main]
SpuInstruction == Spus[test][spu]

Init == /\ Reset
        /\ test \in Tests
        /\ main = 1 /\ spu = 1 /\ handler = "waiting" /\ count = 0 /\ console = <<>>
-----------------------------------------------------------------------------
(* Main. *)

Fetch(op) == Instruction.op = op
Advance == main' = main + 1 /\ UNCHANGED <<test, spu, handler, count>>
Show(value) == console' = Append(console, value)

\* SPU_Status shows that a channel stalls the SPU.
Blocked == status = "running" /\ SpuInstruction = "RdInMbox" /\ inmbox = 0

Holds(condition) == CASE condition = "running" -> status = "running"
                      [] condition = "not running" -> status # "running"
                      [] condition = "stopped" -> status = "stopped"
                      [] condition = "blocked" -> Blocked
                      [] condition = "word" -> outmbox = 1
                      [] condition = "queue empty" -> proxy = NoCommand
                      [] condition = "quiet" -> handler = "waiting" /\ ~intstat

\* Each loop reads its register again until it has the value.
AwaitRegister == /\ Fetch("await") /\ Holds(Instruction.value)
                 /\ Advance /\ UNCHANGED <<raw, console>>

Branch == /\ \/ Fetch("unless") /\ main' = IF Holds(Instruction.condition)
                                             THEN main + 1 ELSE Instruction.target
             \/ Fetch("goto") /\ main' = Instruction.target
          /\ UNCHANGED <<raw, test, spu, handler, count, console>>

WriteRegister == /\ \/ Fetch("run") /\ RequestRun
                    \/ Fetch("write npc") /\ WriteNpc(Instruction.value)
                    \/ Fetch("write in mbox") /\ WriteInMbox
                    \/ Fetch("write args") /\ WriteArgs
                    \/ Fetch("write command") /\ WriteCommand(Instruction.value)
                    \/ Fetch("read status") /\ ReadCmdStatus
                    \/ Fetch("store ls") /\ StoreLs(Instruction.value)
                    \/ Fetch("fill buf") /\ FillBuf(Instruction.value)
                 /\ Advance /\ UNCHANGED console

Display == /\ \/ Fetch("print") /\ Show(Instruction.value)
              \/ Fetch("print count") /\ Show(count)
              \/ Fetch("print npc") /\ Show(Npc)
              \/ Fetch("print ls") /\ Show(ls)
              \/ Fetch("print buf") /\ Show(buf)
           /\ Advance /\ UNCHANGED raw

ReadWord == /\ Fetch("read word") /\ ReadOutMbox
            /\ Show("word") /\ Advance

Ended == Fetch("return")
Main == AwaitRegister \/ Branch \/ WriteRegister \/ Display \/ ReadWord
-----------------------------------------------------------------------------
(* The SPU and the interrupt thread, until main returns. *)

SpuStep == /\ ~Ended /\ status = "running"
           /\ \/ SpuInstruction = "RdInMbox" /\ RdInMbox
              \/ SpuInstruction = "WrOutMbox" /\ WrOutMbox
              \/ SpuInstruction = "WrOutIntrMbox" /\ WrOutIntrMbox
              \/ SpuInstruction = "stop" /\ StopSpu
           /\ spu' = IF SpuInstruction = "stop" THEN spu ELSE spu + 1
           /\ UNCHANGED <<test, main, handler, count, console>>

Interrupt == /\ ~Ended /\ test \in Establish /\ intstat /\ handler = "waiting"
             /\ handler' = "read"
             /\ count' = IF test = "mailbox_interrupts" THEN count ELSE count + 1
             /\ UNCHANGED <<raw, test, main, spu, console>>

\* Mutant: the interrupt thread does not read the mailbox.
TakeWord_Left == /\ ~Ended /\ handler = "read"
                 /\ handler' = IF test = "mailbox_interrupts" THEN "answer" ELSE "clear"
                 /\ UNCHANGED <<raw, test, main, spu, count, console>>

TakeWord == /\ ~Ended /\ handler = "read"
            /\ ReadIntrMbox
            /\ handler' = IF test = "mailbox_interrupts" THEN "answer" ELSE "clear"
            /\ UNCHANGED <<test, main, spu, count, console>>

\* "Write into the inbound mailbox only when its empty", and the end of the
\* interrupt, which stays.
Answer == /\ ~Ended /\ handler = "answer"
          /\ IF inmbox = 0 THEN WriteInMbox ELSE UNCHANGED raw
          /\ handler' = "waiting"
          /\ UNCHANGED <<test, main, spu, count, console>>

\* Mutant: one interrupt more.
Clear_Eleventh == /\ ~Ended /\ handler = "clear"
                  /\ IF count > 10 \/ test = "interrupt_stack_base" THEN ClearInterrupt ELSE UNCHANGED raw
                  /\ handler' = "waiting"
                  /\ UNCHANGED <<test, main, spu, count, console>>

\* "Avoid TTY spam"; interrupt_stack_base clears the interrupt at once.
Clear == /\ ~Ended /\ handler = "clear"
         /\ IF count >= 10 \/ test = "interrupt_stack_base" THEN ClearInterrupt ELSE UNCHANGED raw
         /\ handler' = "waiting"
         /\ UNCHANGED <<test, main, spu, count, console>>

InterruptThread == Interrupt \/ TakeWord \/ Answer \/ Clear

TransferStep == Transfer /\ UNCHANGED <<test, main, spu, handler, count, console>>

Next == Main \/ SpuStep \/ InterruptThread \/ TransferStep

\* The PPU's two threads and the SPU run, and the MFC serves its queue.
Spec == /\ Init /\ [][Next]_vars
        /\ WF_vars(Main) /\ WF_vars(SpuStep)
        /\ WF_vars(InterruptThread) /\ WF_vars(TransferStep)
-----------------------------------------------------------------------------
TypeOK == /\ status \in {"reset", "running", "stopped"} /\ npc \in {0, 4}
          /\ inmbox \in 0..InDepth /\ outmbox \in 0..1 /\ intrmbox \in 0..1
          /\ intstat \in BOOLEAN /\ args \in BOOLEAN
          /\ {command, proxy} \subseteq {NoCommand, "get", "put"}
          /\ {ls, buf} \subseteq 0..255
          /\ test \in Tests /\ main \in DOMAIN Mains[test] /\ spu \in DOMAIN Spus[test]
          /\ handler \in {"waiting", "read", "answer", "clear"} /\ count \in 0..10

\* What each main has printed when it returns, where expected.txt says what it
\* is: one word makes ten interrupts if nine are not cleared, and one if none is
\* left, neither command of the proxy is executed before the status is read, and
\* the NPC reads 0 while the SPU runs.
Lines == [mailbox_interrupts_2 |-> <<"raw thread is running", 10>>,
          npc_writes |-> <<4, 0, 0>>,
          mfc_proxy |-> <<0, 128, 0>>]

AsOnTheConsole == /\ (Ended /\ test \in DOMAIN Lines) => console = Lines[test]
                  /\ test = "interrupt_stack_base" => count <= 1

\* A main that has seen the SPU run returns when the SPU stops ("acts like
\* std::thread.join()"), which in mailbox_interrupts needs the interrupt thread
\* to take the first word; the SPU that waits for a word is found waiting, gets
\* it and goes on; the tests that look at registers end.
Stopping == {"mailbox_interrupts", "mailbox_interrupts_2", "restarting_status_bits",
             "interrupt_stack_base"}
Blocking == {"default_stack_pointer", "tm_event"}

EndsAsDescribed ==
  /\ (test \in Stopping /\ main > 2) ~> Ended
  /\ <>[](/\ test \in Blocking => /\ SpuInstruction = "for ever"
                                  /\ console = <<"raw thread is running",
                                                 "spu is waiting on a blocked channel">>
          /\ test = "no_handler" => console = <<"raw thread is running">>
          /\ test \in {"default_stack_pointer_copy", "npc_writes", "mfc_proxy"} => Ended)

\* "waits until the run request has been completed".
RunIsSeen == (main = 2 /\ status # "reset") ~> main > 2
=============================================================================
