--------------------------- MODULE SpuReservation ---------------------------
(***************************************************************************)
(* The SPU half of spu_tests/atomic reservations tests.  SPU 0 first runs  *)
(* the event tests on two lines of its own; then SPU 1 increments the word *)
(* 0 of the line at raddr with GETLLAR and PUTLLC for as long as word 31   *)
(* is not -1, while SPU 0 waits for the word to change, looks for the lost *)
(* reservation event and finally sets word 31 with the same two commands.  *)
(* The PPU starts the group of the two threads and joins it.  One step is  *)
(* one MFC command or channel access, with the arithmetic that follows it. *)
(***************************************************************************)
EXTENDS Naturals, Sequences

CONSTANTS Word       \* 2^32 in the code: word 0 wraps around

ASSUME WordAssumption == Word \in Nat /\ Word > 1

Spus == {0, 1}
Lines == {"raddr", "raddr128", "raddr256"}
NoLine == "none"

VARIABLES mem, res, pending, mask, count     \* the device's, see LockLine
INSTANCE LockLine

VARIABLES ls,        \* rdata, each SPU's copy of a line in its local store
          pc,        \* where each SPU is
          ip,        \* the next step of the event tests
          value,     \* value: what SPU 0 waits to see changed
          printed,   \* the events SPU 0 printed
          status,    \* "status after PUT"
          group      \* what the PPU is doing with the group

device == <<mem, res, pending, mask, count>>
local == <<ls, ip, value, printed, status>>
vars == <<device, pc, local, group>>

Contents == [word : 0..(Word - 1), stop : BOOLEAN]
Zero == [word |-> 0, stop |-> FALSE]

\* The event tests before SKIP_EVENTS_TESTS, four of them, and the ack_event
\* after it.  A step is a command and the line it is for.
Mask == [op |-> "mask", line |-> NoLine]
Ack == [op |-> "ack", line |-> NoLine]
Drain == [op |-> "drain", line |-> NoLine]
PrintEvent == [op |-> "print", line |-> NoLine]
Cmd(op, l) == [op |-> op, line |-> l]
EventTests ==
  <<Mask, Ack, Drain, Cmd("getllar", "raddr128"), Cmd("getllar", "raddr256"), PrintEvent,
    Mask, Ack, Drain, Cmd("getllar", "raddr128"), Cmd("putllc", "raddr256"), PrintEvent,
    Mask, Ack, Drain, Cmd("getllar", "raddr128"), Cmd("putlluc", "raddr128"), PrintEvent,
    Mask, Ack, Drain, Cmd("getllar", "raddr128"), Cmd("put", "raddr128"),
                      Cmd("putllc", "raddr128"), PrintEvent,
    Mask, Ack, Drain>>

SkipEventsTests == 26

Goto(s, l) == pc' = [pc EXCEPT ![s] = l]

Init == /\ DeviceInit
        /\ mem = [l \in Lines |-> Zero]
        /\ ls = [s \in Spus |-> Zero]
        /\ pc = [s \in Spus |-> "off"]
        /\ ip = [s \in Spus |-> IF s = 1 THEN SkipEventsTests ELSE 1]
        /\ value = 0 /\ printed = <<>> /\ status = 0
        /\ group = "created"
-----------------------------------------------------------------------------
(* The PPU: start the group and join it; the join waits for both threads.  *)
StartGroup == /\ group = "created"
              /\ group' = "started"
              /\ pc' = [s \in Spus |-> "tests"]
              /\ UNCHANGED <<device, local>>

JoinGroup == /\ group = "started"
             /\ \A s \in Spus : pc[s] = "exited"
             /\ group' = "destroyed"
             /\ UNCHANGED <<device, pc, local>>
-----------------------------------------------------------------------------
(* The event tests, one operator per kind of step. *)

At(s, op) == pc[s] = "tests" /\ EventTests[ip[s]].op = op
Line(s) == EventTests[ip[s]].line

\* After the last step each SPU goes its own way.
Advance(s) ==
  /\ ip' = [ip EXCEPT ![s] = @ + 1]
  /\ IF ip[s] < Len(EventTests) THEN UNCHANGED pc
     ELSE Goto(s, IF s = 1 THEN "inc_load" ELSE "first_load")
  /\ UNCHANGED group

\* Mutant: ack_event does not enable the event.
TestMask_Dropped(s) == /\ At(s, "mask") /\ Advance(s)
                       /\ UNCHANGED <<device, ls, value, printed, status>>

TestMask(s) == /\ At(s, "mask") /\ WriteMask(s) /\ Advance(s)
               /\ UNCHANGED <<ls, value, printed, status>>

TestAck(s) == /\ At(s, "ack") /\ WriteAck(s) /\ Advance(s)
              /\ UNCHANGED <<ls, value, printed, status>>

TestDrain(s) == /\ At(s, "drain") /\ ReadStatus(s) /\ Advance(s)
                /\ UNCHANGED <<ls, value, printed, status>>

TestGetllar(s) == /\ At(s, "getllar") /\ Getllar(s, Line(s)) /\ Advance(s)
                  /\ ls' = [ls EXCEPT ![s] = mem[Line(s)]]
                  /\ UNCHANGED <<value, printed, status>>

TestPutllc(s) == /\ At(s, "putllc") /\ Putllc(s, Line(s), ls[s]) /\ Advance(s)
                 /\ status' = IF res[s] = Line(s) THEN 0 ELSE 1
                 /\ UNCHANGED <<ls, value, printed>>

TestPutlluc(s) == /\ At(s, "putlluc") /\ Putlluc(s, Line(s), ls[s]) /\ Advance(s)
                  /\ UNCHANGED <<ls, value, printed, status>>

TestPut(s) == /\ At(s, "put") /\ Put(s, Line(s), ls[s]) /\ Advance(s)
              /\ UNCHANGED <<ls, value, printed, status>>

TestPrint(s) == /\ At(s, "print") /\ ReadStatus(s) /\ Advance(s)
                /\ printed' = Append(printed, Status(s))
                /\ UNCHANGED <<ls, value, status>>

TestStep(s) == \/ TestMask(s) \/ TestAck(s) \/ TestDrain(s) \/ TestGetllar(s)
               \/ TestPutllc(s) \/ TestPutlluc(s) \/ TestPut(s) \/ TestPrint(s)
-----------------------------------------------------------------------------
(* SPU 1: increment word 0 until word 31 is -1. *)

\* Mutant: word 0 does not wrap around.
IncLoad_NoWrap == /\ pc[1] = "inc_load"
                  /\ Getllar(1, "raddr")
                  /\ IF mem["raddr"].stop
                     THEN /\ ls' = [ls EXCEPT ![1] = mem["raddr"]]
                          /\ Goto(1, "exited")
                     ELSE /\ ls' = [ls EXCEPT ![1] = [mem["raddr"] EXCEPT !.word = @ + 1]]
                          /\ Goto(1, "inc_store")
                  /\ UNCHANGED <<ip, value, printed, status, group>>

\* Mutant: word 31 is not looked at.
IncLoad_NoCheck == /\ pc[1] = "inc_load"
                   /\ Getllar(1, "raddr")
                   /\ ls' = [ls EXCEPT ![1] =
                               [mem["raddr"] EXCEPT !.word = (@ + 1) % Word]]
                   /\ Goto(1, "inc_store")
                   /\ UNCHANGED <<ip, value, printed, status, group>>

IncLoad == /\ pc[1] = "inc_load"
           /\ Getllar(1, "raddr")
           /\ IF mem["raddr"].stop
              THEN /\ ls' = [ls EXCEPT ![1] = mem["raddr"]]
                   /\ Goto(1, "exited")
              ELSE /\ ls' = [ls EXCEPT ![1] =
                               [mem["raddr"] EXCEPT !.word = (@ + 1) % Word]]
                   /\ Goto(1, "inc_store")
           /\ UNCHANGED <<ip, value, printed, status, group>>

\* Mutant: PUTLLUC in place of PUTLLC.
IncStore_Unconditional == /\ pc[1] = "inc_store"
                          /\ Putlluc(1, "raddr", ls[1])
                          /\ Goto(1, "inc_load")
                          /\ UNCHANGED <<local, group>>

IncStore == /\ pc[1] = "inc_store"
            /\ Putllc(1, "raddr", ls[1])
            /\ Goto(1, "inc_load")
            /\ UNCHANGED <<local, group>>
-----------------------------------------------------------------------------
(* SPU 0: wait for a change, look for the event, set word 31. *)

\* Mutant: the first value is read without a reservation.
FirstLoad_NoReservation == /\ pc[0] = "first_load"
                           /\ value' = mem["raddr"].word
                           /\ Goto(0, "wait_change")
                           /\ UNCHANGED <<device, ls, ip, printed, status, group>>

FirstLoad == /\ pc[0] = "first_load"
             /\ Getllar(0, "raddr")
             /\ ls' = [ls EXCEPT ![0] = mem["raddr"]]
             /\ value' = mem["raddr"].word
             /\ Goto(0, "wait_change")
             /\ UNCHANGED <<ip, printed, status, group>>

WaitLoad(changed) ==
  /\ pc[0] = "wait_change"
  /\ changed = (mem["raddr"].word # value)
  /\ Getllar(0, "raddr")
  /\ ls' = [ls EXCEPT ![0] = mem["raddr"]]
  /\ Goto(0, IF changed THEN "lose" ELSE "wait_change")
  /\ UNCHANGED <<ip, value, printed, status, group>>
SeeNoChange == WaitLoad(FALSE)
SeeChange == WaitLoad(TRUE)

LosePrevious == /\ pc[0] = "lose"
                /\ Getllar(0, "raddr128")
                /\ ls' = [ls EXCEPT ![0] = mem["raddr128"]]
                /\ Goto(0, "record")
                /\ UNCHANGED <<ip, value, printed, status, group>>

PrintRecorded == /\ pc[0] = "record"
                 /\ ReadStatus(0)
                 /\ printed' = Append(printed, Status(0))
                 /\ Goto(0, "stop_load")
                 /\ UNCHANGED <<ls, ip, value, status, group>>

StopLoad == /\ pc[0] = "stop_load"
            /\ Getllar(0, "raddr")
            /\ ls' = [ls EXCEPT ![0] = [mem["raddr"] EXCEPT !.stop = TRUE]]
            /\ Goto(0, "stop_store")
            /\ UNCHANGED <<ip, value, printed, status, group>>

\* Mutant: the store is repeated without a new load.
StopStore_NoReload(stored) ==
  /\ pc[0] = "stop_store"
  /\ stored = (res[0] = "raddr")
  /\ Putllc(0, "raddr", ls[0])
  /\ Goto(0, IF stored THEN "exited" ELSE "stop_store")
  /\ UNCHANGED <<local, group>>

StopStore(stored) ==
  /\ pc[0] = "stop_store"
  /\ stored = (res[0] = "raddr")
  /\ Putllc(0, "raddr", ls[0])
  /\ Goto(0, IF stored THEN "exited" ELSE "stop_load")
  /\ UNCHANGED <<local, group>>
StopStored == StopStore(TRUE)
StopFailed == StopStore(FALSE)

Spu0 == \/ TestStep(0) \/ FirstLoad \/ SeeNoChange \/ SeeChange \/ LosePrevious
        \/ PrintRecorded \/ StopLoad \/ StopStored \/ StopFailed
Spu1 == TestStep(1) \/ IncLoad \/ IncStore
Ppu == StartGroup \/ JoinGroup

Next == Ppu \/ Spu0 \/ Spu1

SafeSpec == Init /\ [][Next]_vars
\* Each processor runs.
Spec == SafeSpec /\ WF_vars(Ppu) /\ WF_vars(Spu0) /\ WF_vars(Spu1)
\* The bus serves SPU 0 too: it is not for ever that SPU 1's stores come
\* between its load and its store, or wrap word 0 around between its loads.
FairBus == SF_vars(SeeChange) /\ SF_vars(StopStored)
-----------------------------------------------------------------------------
Labels == {"off", "tests", "inc_load", "inc_store", "first_load", "wait_change",
           "lose", "record", "stop_load", "stop_store", "exited"}

TypeOK == /\ DeviceOK
          /\ mem \in [Lines -> Contents]
          /\ ls \in [Spus -> Contents]
          /\ pc \in [Spus -> Labels]
          /\ ip \in [Spus -> 1..(Len(EventTests) + 1)]
          /\ value \in 0..(Word - 1)
          /\ printed \in Seq(BOOLEAN)
          /\ status \in 0..1
          /\ group \in {"created", "started", "destroyed"}

\* expected.txt: GETLLAR, PUTLLC and PUTLLUC raise no event, a PUT does.
\* Nothing SPU 1 stores meanwhile, and no event left over from the previous
\* test, may show in the event tests.
EventsAsExpected ==
  /\ \A i \in DOMAIN printed \cap 1..4 : printed[i] = (i = 4)
  /\ Len(printed) >= 4 => status = 1

\* No event of the tests is left when the wait for a change begins: the event
\* recorded at its end is the one SPU 1's store raised.
NoStaleEvent == pc[0] = "first_load" => ~pending[0] /\ count[0] = 0

\* "Reservation changed earlier, event must be recorded": the lost reservation
\* is seen although SPU 0 has reserved the line again since, and has moved on;
\* and it is seen for this loss, not for one before.
EventMustBeRecorded == NoStaleEvent /\ (Len(printed) = 5 => printed[5])

\* No update of the shared line is lost: word 0 moves by one, never back, and
\* once word 31 says stop nothing is stored any more.
NoLostUpdate ==
  [][/\ mem'["raddr"].word \in {mem["raddr"].word, (mem["raddr"].word + 1) % Word}
     /\ mem["raddr"].stop => mem'["raddr"] = mem["raddr"]]_mem

\* Once SPU 0 has stored the stop, SPU 1 sees it and the PPU's join returns.
StopIsSeen == mem["raddr"].stop ~> group = "destroyed"

\* With a fair bus the whole program ends, and with any once the stop is stored.
Termination == StopIsSeen /\ (FairBus => <>(group = "destroyed"))
=============================================================================
