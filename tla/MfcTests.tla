------------------------------- MODULE MfcTests -------------------------------
(***************************************************************************)
(* The tests of stalled lists, barriers and tag updates.  A thread of      *)
(* writes to and waits for the MFC races the commands it has issued; main  *)
(* starts it, sends it an address where it waits for one, and joins it.    *)
(***************************************************************************)
EXTENDS Naturals, Sequences

CONSTANTS Tests,       \* the tests to run
          QueueDepth,  \* see Mfc
          Polls        \* how often MFC_WrTagUpdate looks at a count: 50000

VARIABLES group, result, code, mbox, snr, cfg   \* see SpuThreadGroup
INSTANCE SpuThreadGroup

VARIABLES queue, stallstat, tagmask, update, tagstat   \* see Mfc
INSTANCE Mfc

VARIABLES test,     \* the test that runs
          main,     \* where its main is
          spu,      \* "off", "running" or "exited"
          pc,       \* the thread's next instruction
          polls,    \* j: how often it has looked
          found,    \* result: whether it saw the count 0
          console   \* what the thread has printed

lv2 == <<group, result, code, mbox, snr, cfg>>
mfc == <<queue, stallstat, tagmask, update, tagstat>>
thread == <<spu, pc, polls, found, console>>
vars == <<lv2, mfc, test, main, thread>>
-----------------------------------------------------------------------------
(* The threads. *)

I(op) == [op |-> op]
Cmd(command) == [op |-> "issue", command |-> command]
Write(channel, value) == [op |-> channel, value |-> value]
Await(condition) == [op |-> "await", condition |-> condition]
Line(text) == [op |-> "print", text |-> text]
ReadSnr == I("RdSigNotify1")
ReadStall == I("RdListStallStat")
Ack(tag) == Write("WrListStallAck", tag)
UpdateOf(tags) == <<Write("WrTagMask", tags), Write("WrTagUpdate", UpdateAll)>>
Poll(count) == [op |-> "poll", count |-> count]
Exit == I("exit")

\* The first of two transfers stalls; the second is of no bytes.
StallingList(tag) == List(tag, <<TRUE, FALSE>>)

\* Mutant: the second list is not waited for.
Lists_execution_OneWait ==
  <<Await("empty"), Cmd(StallingList(0)), ReadStall, Cmd(StallingList(0)),
    Ack(0), Await("empty"), Line("sample finished"), Await("empty"), Exit>>

Lists_execution ==
  <<Await("empty"), Cmd(StallingList(0)), ReadStall, Cmd(StallingList(0)), ReadStall,
    Ack(0), Await("empty"), Line("sample finished"), Await("empty"), Exit>>

\* Mutant: there is no status before the list.
MFC_WrTagUpdate_NoStatus ==
  LET Round(count) == <<Cmd(StallingList(0)), ReadStall>> \o UpdateOf(Tags)
                      \o <<Poll(count), Ack(0), Await("empty"), I("RdTagStat"), I("print_result")>>
  IN  Round("status") \o Round("update") \o <<Exit>>

MFC_WrTagUpdate ==
  LET Round(count) == <<Cmd(StallingList(0)), ReadStall>> \o UpdateOf(Tags)
                      \o <<Poll(count), Ack(0), Await("empty"), I("RdTagStat"), I("print_result")>>
  IN  <<Await("empty")>> \o UpdateOf(Tags) \o <<Await("status")>>
      \o Round("status") \o Round("update") \o <<Exit>>

\* Mutant: the second command is a GET without the barrier.
barrier_commands_Plain ==
  <<ReadSnr, Cmd(StallingList(0)), ReadStall, Cmd(Transfer(0)),
    Line("Waiting for the command to complete"), Await("one_complete"),
    Line("Finished, didnt stall"), Exit>>

barrier_commands ==
  <<ReadSnr, Cmd(StallingList(0)), ReadStall, Cmd(Barrier(0)),
    Line("Waiting for the command to complete"), Await("one_complete"),
    Line("Finished, didnt stall"), Exit>>

FullBarrier ==
  <<Await("address"), ReadSnr, Line("ok"), Cmd(List(31, <<TRUE, TRUE>>)), Line("ok"),
    Await("one_queued"), Line("ok"), Await("stalled"), Line("ok"),
    Cmd(Sync(1)), Await("two_queued"), Line("ok")>> \o UpdateOf({1})
  \o <<I("RdTagStat"), Line("the tag status is"), Exit>>

eieio_command == FullBarrier
sync_command == FullBarrier

\* mfc_write_tag_update_all asks for the status of the tag, and nothing reads it.
list_transfer_size ==
  <<ReadSnr, Cmd(Transfer(0))>> \o UpdateOf({0}) \o <<Line("the mfc didnt stall!"), Exit>>

Threads == [Lists_execution |-> Lists_execution, MFC_WrTagUpdate |-> MFC_WrTagUpdate,
            barrier_commands |-> barrier_commands, eieio_command |-> eieio_command,
            sync_command |-> sync_command, list_transfer_size |-> list_transfer_size]

ASSUME MfcTestsAssumption == /\ Tests \subseteq DOMAIN Threads
                             /\ Polls \in Nat \ {0} /\ QueueDepth \in Nat \ {0, 1}

Instruction == Threads[test][pc]
SendsAddress == {"barrier_commands", "eieio_command", "sync_command", "list_transfer_size"}

Init == /\ Created /\ Idle
        /\ test \in Tests /\ main = "start" /\ spu = "off"
        /\ pc = 1 /\ polls = 0 /\ found = FALSE /\ console = <<>>
-----------------------------------------------------------------------------
(* Main. *)

Start == /\ main = "start"
         /\ sys_spu_thread_group_start
         /\ spu' = "running"
         /\ main' = IF test \in SendsAddress THEN "write_snr" ELSE "join"
         /\ UNCHANGED <<mfc, test, pc, polls, found, console>>

SendAddress == /\ main = "write_snr"
               /\ sys_spu_thread_write_snr
               /\ main' = "join"
               /\ UNCHANGED <<mfc, test, thread>>

JoinGroup == /\ main = "join"
             /\ sys_spu_thread_group_join
             /\ main' = "destroy"
             /\ UNCHANGED <<mfc, test, thread>>

DestroyGroup == /\ main = "destroy"
                /\ sys_spu_thread_group_destroy
                /\ main' = "returned"
                /\ UNCHANGED <<mfc, test, thread>>

Main == Start \/ SendAddress \/ JoinGroup \/ DestroyGroup
-----------------------------------------------------------------------------
(* The thread. *)

Fetch(op) == spu = "running" /\ Instruction.op = op
Advance == pc' = pc + 1 /\ UNCHANGED <<test, main, spu>>
NoPoll == UNCHANGED <<polls, found>>

WriteChannel == /\ \/ Fetch("issue") /\ Issue(Instruction.command)
                   \/ Fetch("WrListStallAck") /\ WrListStallAck(Instruction.value)
                   \/ Fetch("WrTagMask") /\ WrTagMask(Instruction.value)
                   \/ Fetch("WrTagUpdate") /\ WrTagUpdate(Instruction.value)
                /\ Advance /\ NoPoll /\ UNCHANGED <<lv2, console>>

ReadChannel == /\ \/ Fetch("RdListStallStat") /\ RdListStallStat
                  \/ Fetch("RdTagStat") /\ RdTagStat
               /\ Advance /\ NoPoll /\ UNCHANGED <<lv2, console>>

ReadAddress == /\ Fetch("RdSigNotify1") /\ snr = 1
               /\ snr' = 0
               /\ Advance /\ NoPoll /\ UNCHANGED <<group, result, code, mbox, cfg, mfc, console>>

\* The loops that wait for a count, one for each count they wait for.
Holds(condition) == CASE condition = "empty" -> FreeSlots = QueueDepth
                      [] condition = "one_queued" -> FreeSlots < QueueDepth
                      [] condition = "two_queued" -> FreeSlots < QueueDepth - 1
                      [] condition = "one_complete" -> FreeSlots >= QueueDepth - 1
                      [] condition = "stalled" -> stallstat # {}
                      [] condition = "status" -> tagstat = 1
                      [] condition = "address" -> snr = 1

AwaitCount == /\ Fetch("await") /\ Holds(Instruction.condition)
              /\ Advance /\ NoPoll /\ UNCHANGED <<lv2, mfc, console>>

\* Mutant: j <= 50000.
PollCount_OneMore == /\ Fetch("poll") /\ ~found /\ polls <= Polls
                     /\ found' = (Instruction.count = "status" /\ tagstat = 0)
                     /\ polls' = polls + 1
                     /\ UNCHANGED <<lv2, mfc, test, main, spu, pc, console>>

\* "Wait for condition to occur (with timeout)": MFC_WrTagUpdate always has room.
PollCount == /\ Fetch("poll") /\ ~found /\ polls < Polls
             /\ found' = (Instruction.count = "status" /\ tagstat = 0)
             /\ polls' = polls + 1
             /\ UNCHANGED <<lv2, mfc, test, main, spu, pc, console>>

PollEnds == /\ Fetch("poll") /\ (found \/ polls = Polls)
            /\ Advance /\ NoPoll /\ UNCHANGED <<lv2, mfc, console>>

PrintResult == /\ Fetch("print_result")
               /\ console' = Append(console, found)
               /\ polls' = 0 /\ found' = FALSE
               /\ Advance /\ UNCHANGED <<lv2, mfc>>

PrintLine == /\ Fetch("print")
             /\ console' = Append(console, Instruction.text)
             /\ Advance /\ NoPoll /\ UNCHANGED <<lv2, mfc>>

\* The MFC goes on with the commands that are left.
ExitThread == /\ Fetch("exit")
              /\ sys_spu_thread_exit(0)
              /\ spu' = "exited"
              /\ UNCHANGED <<mfc, test, main, pc, polls, found, console>>

Thread == \/ WriteChannel \/ ReadChannel \/ ReadAddress \/ AwaitCount
          \/ PollCount \/ PollEnds \/ PrintResult \/ PrintLine \/ ExitThread

Device(step) == step /\ UNCHANGED <<lv2, test, main, thread>>
Transfers == \E i \in DOMAIN queue : Proceed(i)

Next == Main \/ Thread \/ Device(Transfers) \/ Device(UpdateTag)

\* Both processors run, and the MFC goes on with what it can.
Spec == /\ Init /\ [][Next]_vars
        /\ WF_vars(Main) /\ WF_vars(Thread)
        /\ WF_vars(Device(Transfers)) /\ WF_vars(Device(UpdateTag))
-----------------------------------------------------------------------------
Commands == [kind : {"list", "barrier", "sync"}, tag : Tags,
             left : {<<FALSE>>, <<TRUE>>, <<TRUE, FALSE>>, <<TRUE, TRUE>>}, stalled : BOOLEAN]

TypeOK == /\ group \in {"none", "idle", "running"} /\ snr \in 0..1
          /\ queue \in Seq(Commands) /\ Len(queue) <= QueueDepth
          /\ stallstat \subseteq Tags /\ tagmask \subseteq Tags
          /\ update \in {NoUpdate, UpdateAll} /\ tagstat \in 0..1
          /\ test \in Tests /\ main \in {"start", "write_snr", "join", "destroy", "returned"}
          /\ spu \in {"off", "running", "exited"} /\ pc \in DOMAIN Threads[test]
          /\ polls \in 0..Polls /\ found \in BOOLEAN

\* One acknowledgement releases every list of its tag that has stalled by then,
\* and none that stalls later: "Wait until stalled" has to have seen them all.
AckAfterEveryStall ==
  Fetch("WrListStallAck") =>
    \A i \in DOMAIN queue : queue[i].tag = Instruction.value => queue[i].stalled

\* The threads that acknowledge their lists see all the commands complete and
\* exit; the others say how far they came, and wait for a barrier for ever.
\* "Tag Status operation result: 0" and "Tag Update operation result: 0": neither
\* count is seen at 0 while the request is kept waiting by the stalled list.
Oks == [i \in 1..5 |-> "ok"]
Remain == [barrier_commands |-> <<"Waiting for the command to complete">>,
           eieio_command |-> Oks, sync_command |-> Oks]

EndsAsOnTheConsole ==
  <>[](IF test \in DOMAIN Remain
         THEN spu = "running" /\ main = "join" /\ console = Remain[test]
         ELSE /\ spu = "exited" /\ main = "returned" /\ queue = <<>>
              /\ test = "MFC_WrTagUpdate" => \A i \in DOMAIN console : console[i] = FALSE)
==============================================================================
