----------------------- MODULE SpuReservation_proofs -----------------------
(***************************************************************************)
(* Theorems about SpuReservation for every width of word 0.                *)
(***************************************************************************)
EXTENDS SpuReservation, TLAPS

Before == {"off", "tests"}                    \* SPU 0 runs the event tests
Waiting == {"first_load", "wait_change"}
Recording == {"lose", "record"}
Last == {"stop_load", "stop_store", "exited"}

\* What the event tests have printed before step i.
PrintedBefore(i) == IF i > 25 THEN 4 ELSE IF i > 18 THEN 3
                    ELSE IF i > 12 THEN 2 ELSE IF i > 6 THEN 1 ELSE 0

Control ==
  /\ pc[0] \in Before \cup Waiting \cup Recording \cup Last
  /\ pc[1] \in Before \cup {"inc_load", "inc_store", "exited"}
  /\ group = "created" <=> pc[0] = "off"
  /\ group = "created" <=> pc[1] = "off"
  /\ pc[0] \in Before => ip[0] \in 1..28
  /\ pc[1] \in Before => ip[1] \in SkipEventsTests..28

\* In the event tests SPU 0's reservation is out of SPU 1's reach, and the
\* event is pending from the PUT of the last test to the ack after it.
Testing ==
  /\ pc[1] \in Before => res[1] = NoLine
  /\ pc[0] \in Before =>
       /\ res[0] # "raddr"
       /\ pending[0] <=> ip[0] \in 24..27
       /\ ip[0] > 1 => mask[0]
       /\ ip[0] \in 24..25 => count[0] = 1
       /\ ip[0] = 23 => res[0] = "raddr128"
       /\ ip[0] = 24 => res[0] = NoLine
       /\ ip[0] > 24 => status = 1
       /\ Len(printed) = PrintedBefore(ip[0])
       /\ Len(printed) >= 4 => status = 1
  /\ pc[0] \notin Before => status = 1
  /\ \A i \in DOMAIN printed : printed[i] = (i >= 4)

\* After them the event is enabled, and readable as soon as it is pending; it
\* is pending as soon as the word has moved from the value first seen.
Recorded ==
  /\ pc[0] \in Waiting \cup Recording =>
       /\ mask[0] /\ (pending[0] => count[0] = 1)
       /\ Len(printed) = 4
  /\ pc[0] = "first_load" => ~pending[0] /\ count[0] = 0 /\ res[0] # "raddr"
  /\ pc[0] = "wait_change" /\ ~pending[0] =>
       res[0] = "raddr" /\ mem["raddr"].word = value
  /\ pc[0] \in Recording => pending[0]
  /\ pc[0] \in Last => Len(printed) = 5

\* A reservation still held means the copy is of what is in memory.
Fresh ==
  /\ pc[1] = "inc_store" =>
       /\ ~ls[1].stop
       /\ res[1] = "raddr" => /\ ~mem["raddr"].stop
                              /\ ls[1].word = (mem["raddr"].word + 1) % Word
  /\ pc[0] = "stop_store" =>
       /\ ls[0].stop
       /\ res[0] = "raddr" => ls[0].word = mem["raddr"].word
  /\ mem["raddr"].stop => pc[0] = "exited"

IInv == TypeOK /\ Control /\ Testing /\ Recorded /\ Fresh
-----------------------------------------------------------------------------
LEMMA Tests ==
  /\ Len(EventTests) = 28
  /\ \A i \in 1..28 :
       /\ EventTests[i].op = "mask" <=> i \in {1, 7, 13, 19, 26}
       /\ EventTests[i].op = "ack" <=> i \in {2, 8, 14, 20, 27}
       /\ EventTests[i].op = "drain" <=> i \in {3, 9, 15, 21, 28}
       /\ EventTests[i].op = "print" <=> i \in {6, 12, 18, 25}
       /\ EventTests[i].op = "getllar" <=> i \in {4, 5, 10, 16, 22}
       /\ EventTests[i].op = "putllc" <=> i \in {11, 24}
       /\ EventTests[i].op = "putlluc" <=> i = 17
       /\ EventTests[i].op = "put" <=> i = 23
       /\ EventTests[i].line \in {"raddr128", "raddr256", "none"}
       /\ EventTests[i].op \in {"getllar", "putllc", "putlluc", "put"} => EventTests[i].line # "none"
       /\ i \in {16, 17, 22, 23, 24} => EventTests[i].line = "raddr128"
<1> USE DEF EventTests, Mask, Ack, Drain, PrintEvent, Cmd, NoLine
<1>1. Len(EventTests) = 28
  OBVIOUS
<1>2. \A i \in 1..28 : EventTests[i].op = "mask" <=> i \in {1, 7, 13, 19, 26}
  OBVIOUS
<1>3. \A i \in 1..28 : EventTests[i].op = "ack" <=> i \in {2, 8, 14, 20, 27}
  OBVIOUS
<1>4. \A i \in 1..28 : EventTests[i].op = "drain" <=> i \in {3, 9, 15, 21, 28}
  OBVIOUS
<1>5. \A i \in 1..28 : EventTests[i].op = "print" <=> i \in {6, 12, 18, 25}
  OBVIOUS
<1>6. \A i \in 1..28 : EventTests[i].op = "getllar" <=> i \in {4, 5, 10, 16, 22}
  OBVIOUS
<1>7. \A i \in 1..28 : EventTests[i].op = "putllc" <=> i \in {11, 24}
  OBVIOUS
<1>8. \A i \in 1..28 : EventTests[i].op = "putlluc" <=> i \in {17}
  OBVIOUS
<1>9. \A i \in 1..28 : EventTests[i].op = "put" <=> i \in {23}
  OBVIOUS
<1>10. \A i \in 1..28 : EventTests[i].line \in {"raddr128", "raddr256", "none"}
  OBVIOUS
<1>11. \A i \in {4, 5, 10, 16, 22, 11, 24, 17, 23} : EventTests[i].line # "none"
  OBVIOUS
<1>12. \A i \in {16, 17, 22, 23, 24} : EventTests[i].line = "raddr128"
  OBVIOUS
<1> HIDE DEF EventTests
<1>13. QED
  BY <1>1, <1>2, <1>3, <1>4, <1>5, <1>6, <1>7, <1>8, <1>9, <1>10, <1>11, <1>12

-----------------------------------------------------------------------------
(* Type correctness. *)

LEMMA InitIInv == Init => IInv
<1> SUFFICES ASSUME Init PROVE IInv
  OBVIOUS
<1>1. printed \in Seq(BOOLEAN) /\ Len(printed) = 0 /\ DOMAIN printed = {}
  BY DEF Init
<1>2. Len(EventTests) = 28
  BY Tests
<1>3. Zero \in Contents
  BY WordAssumption DEF Zero, Contents
<1>4. TypeOK
  <2>1. DeviceOK
    BY DEF Init, DeviceInit, DeviceOK, NoLine
  <2>2. /\ mem \in [Lines -> Contents] /\ ls \in [Spus -> Contents]
        /\ pc \in [Spus -> Labels] /\ ip \in [Spus -> 1..(28 + 1)]
    BY <1>3 DEF Init, Labels, SkipEventsTests
  <2>3. value \in 0..(Word - 1) /\ status \in 0..1 /\ group = "created"
    BY WordAssumption DEF Init
  <2>4. QED
    BY <1>1, <1>2, <2>1, <2>2, <2>3 DEF TypeOK
<1>5. /\ pc[0] = "off" /\ pc[1] = "off" /\ ip[0] = 1 /\ ip[1] = SkipEventsTests
      /\ group = "created" /\ res[0] = NoLine /\ res[1] = NoLine
      /\ pending[0] = FALSE /\ status = 0 /\ mem["raddr"].stop = FALSE
  BY DEF Init, DeviceInit, Spus, Lines, Zero
<1>6. Control /\ Testing /\ Recorded /\ Fresh
  BY <1>1, <1>5 DEF Control, Testing, Recorded, Fresh, Before, Waiting, Recording,
     Last, PrintedBefore, SkipEventsTests, NoLine
<1>7. QED
  BY <1>4, <1>6 DEF IInv

\* A step of the event tests: where it is taken, and how the SPU moves on.
LEMMA TestEffect ==
  ASSUME IInv, NEW s \in Spus, TestStep(s)
  PROVE  /\ pc[s] = "tests" /\ ip[s] \in 1..28
         /\ s = 1 => ip[s] \in 26..28
         /\ ip' = [ip EXCEPT ![s] = ip[s] + 1]
         /\ ip[s] < 28 => pc' = pc
         /\ ip[s] = 28 => pc' = [pc EXCEPT ![s] = IF s = 1 THEN "inc_load" ELSE "first_load"]
         /\ UNCHANGED <<group, value>>
<1>1. pc[s] = "tests"
  BY DEF TestStep, At, TestMask, TestAck, TestDrain, TestGetllar, TestPutllc,
         TestPutlluc, TestPut, TestPrint
<1>2. Advance(s) /\ UNCHANGED value
  BY DEF TestStep, TestMask, TestAck, TestDrain, TestGetllar, TestPutllc,
         TestPutlluc, TestPut, TestPrint
<1>3. ip[s] \in 1..28 /\ (s = 1 => ip[s] \in 26..28)
  BY <1>1 DEF IInv, Control, Before, Spus, SkipEventsTests
<1>4. QED
  BY <1>1, <1>2, <1>3, Tests DEF Advance, Goto

\* The device's operators keep the types of the device's state.
LEMMA DeviceTypes ==
  ASSUME TypeOK, NEW s \in Spus, NEW l \in Lines, NEW v \in Contents
  PROVE  /\ Getllar(s, l) \/ Putllc(s, l, v) \/ Putlluc(s, l, v) \/ Put(s, l, v) =>
              DeviceOK' /\ mem' \in [Lines -> Contents]
         /\ WriteMask(s) \/ WriteAck(s) \/ ReadStatus(s) =>
              DeviceOK' /\ mem' \in [Lines -> Contents]
<1> USE DEF TypeOK, DeviceOK
<1>1. ASSUME NEW S \in SUBSET Spus, Raise(S)
      PROVE  /\ pending' \in [Spus -> BOOLEAN] /\ mask' \in [Spus -> BOOLEAN]
             /\ count' \in [Spus -> 0..1]
  BY <1>1 DEF Raise
<1>2. ASSUME NEW S \in SUBSET Spus, StoreLine(s, l, v, S)
      PROVE  DeviceOK' /\ mem' \in [Lines -> Contents]
  BY <1>1, <1>2 DEF StoreLine
<1>3. Holders(l) \in SUBSET Spus /\ Holders(l) \ {s} \in SUBSET Spus
  BY DEF Holders
<1>4. CASE Getllar(s, l)
  BY <1>4 DEF Getllar
<1>5. CASE Putllc(s, l, v)
  <2>1. CASE StoreLine(s, l, v, Holders(l) \ {s})
    BY <1>2, <1>3, <2>1
  <2>2. CASE UNCHANGED <<mem, pending, mask, count>> /\ res' = [res EXCEPT ![s] = NoLine]
    BY <2>2
  <2>3. QED
    BY <1>5, <2>1, <2>2 DEF Putllc
<1>6. CASE Putlluc(s, l, v)
  BY <1>2, <1>3, <1>6 DEF Putlluc
<1>7. CASE Put(s, l, v)
  BY <1>1, <1>3, <1>7 DEF Put
<1>8. CASE WriteMask(s)
  BY <1>8 DEF WriteMask
<1>9. CASE WriteAck(s)
  BY <1>9 DEF WriteAck
<1>10. CASE ReadStatus(s)
  BY <1>10 DEF ReadStatus
<1>11. QED
  BY <1>4, <1>5, <1>6, <1>7, <1>8, <1>9, <1>10

LEMMA TypeStep == IInv /\ [Next]_vars => TypeOK'
<1> SUFFICES ASSUME IInv, [Next]_vars PROVE TypeOK'
  OBVIOUS
<1>1. TypeOK /\ Len(EventTests) = 28
  BY Tests DEF IInv
<1>2. ASSUME NEW s \in Spus, TestStep(s) PROVE TypeOK'
  <2>1. ip' \in [Spus -> 1..29] /\ pc' \in [Spus -> Labels] /\ value' \in 0..(Word - 1)
        /\ group' \in {"created", "started", "destroyed"}
    <3>1. /\ ip[s] \in 1..28 /\ ip' = [ip EXCEPT ![s] = ip[s] + 1]
          /\ \E l \in Labels : pc' = pc \/ pc' = [pc EXCEPT ![s] = l]
          /\ UNCHANGED <<group, value>>
      BY <1>2, TestEffect DEF Labels
    <3>2. ip \in [Spus -> 1..29] /\ pc \in [Spus -> Labels]
      BY <1>1 DEF TypeOK
    <3>3. ip' \in [Spus -> 1..29]
      <4>1. ip[s] + 1 \in 1..29
        BY <3>1
      <4>2. QED
        BY <3>1, <3>2, <4>1
    <3>4. pc' \in [Spus -> Labels]
      BY <3>1, <3>2
    <3>5. QED
      BY <1>1, <3>1, <3>3, <3>4 DEF TypeOK
  <2>2. ls[s] \in Contents
    BY <1>1 DEF TypeOK
  <2>3. At(s, "getllar") \/ At(s, "putllc") \/ At(s, "putlluc") \/ At(s, "put") =>
          Line(s) \in Lines
    BY <1>2, TestEffect, Tests DEF At, Line, Lines
  <2>4. /\ DeviceOK' /\ mem' \in [Lines -> Contents] /\ ls' \in [Spus -> Contents]
        /\ printed' \in Seq(BOOLEAN) /\ status' \in 0..1
    <3>1. CASE TestMask(s) \/ TestAck(s) \/ TestDrain(s)
      BY <1>1, <3>1, <2>2, DeviceTypes DEF TestMask, TestAck, TestDrain, TypeOK, Lines
    <3>2. CASE TestPrint(s)
      <4>1. ReadStatus(s) /\ Status(s) \in BOOLEAN /\ UNCHANGED <<ls, status>>
        BY <3>2 DEF TestPrint, Status
      <4>2. printed' \in Seq(BOOLEAN)
        BY <1>1, <3>2, <4>1 DEF TestPrint, TypeOK
      <4>3. QED
        BY <1>1, <4>1, <4>2, <2>2, DeviceTypes DEF TypeOK, Lines
    <3>3. CASE TestGetllar(s)
      BY <1>1, <3>3, <2>2, <2>3, DeviceTypes DEF TestGetllar, TypeOK
    <3>4. CASE TestPutllc(s)
      BY <1>1, <3>4, <2>2, <2>3, DeviceTypes DEF TestPutllc, TypeOK
    <3>5. CASE TestPutlluc(s)
      BY <1>1, <3>5, <2>2, <2>3, DeviceTypes DEF TestPutlluc, TypeOK
    <3>6. CASE TestPut(s)
      BY <1>1, <3>6, <2>2, <2>3, DeviceTypes DEF TestPut, TypeOK
    <3>7. QED
      BY <1>2, <3>1, <3>2, <3>3, <3>4, <3>5, <3>6 DEF TestStep
  <2>5. QED
    BY <1>1, <2>1, <2>4 DEF TypeOK
<1>3. CASE Ppu
  BY <1>1, <1>3 DEF Ppu, StartGroup, JoinGroup, TypeOK, DeviceOK, Labels, device, local
<1>4. "raddr" \in Lines /\ "raddr128" \in Lines /\ 0 \in Spus /\ 1 \in Spus
  BY DEF Lines, Spus
<1>5. mem["raddr"] \in Contents /\ mem["raddr128"] \in Contents
  BY <1>1, <1>4 DEF TypeOK
<1>6. CASE IncLoad \/ IncStore
  <2>1. [mem["raddr"] EXCEPT !.word = (@ + 1) % Word] \in Contents
    BY <1>5, WordAssumption DEF Contents
  <2>2. ls[1] \in Contents
    BY <1>1, <1>4 DEF TypeOK
  <2>3. CASE IncLoad
    BY <1>1, <1>4, <1>5, <2>1, <2>3, DeviceTypes DEF IncLoad, TypeOK, Goto, Labels
  <2>4. CASE IncStore
    BY <1>1, <1>4, <2>2, <2>4, DeviceTypes DEF IncStore, TypeOK, Goto, Labels, local
  <2>5. QED
    BY <1>6, <2>3, <2>4
<1>7. CASE FirstLoad \/ SeeNoChange \/ SeeChange \/ LosePrevious
  <2>1. mem["raddr"].word \in 0..(Word - 1)
    BY <1>5 DEF Contents
  <2>2. QED
    BY <1>1, <1>4, <1>5, <1>7, <2>1, DeviceTypes
    DEF FirstLoad, SeeNoChange, SeeChange, WaitLoad, LosePrevious, TypeOK, Goto, Labels
<1>8. CASE PrintRecorded
  <2>1. Status(0) \in BOOLEAN
    BY DEF Status
  <2>2. printed' \in Seq(BOOLEAN)
    BY <1>1, <1>8, <2>1 DEF PrintRecorded, TypeOK
  <2>3. QED
    BY <1>1, <1>4, <1>5, <1>8, <2>2, DeviceTypes DEF PrintRecorded, TypeOK, Goto, Labels
<1>9. CASE StopLoad
  <2>1. [mem["raddr"] EXCEPT !.stop = TRUE] \in Contents
    BY <1>5 DEF Contents
  <2>2. QED
    BY <1>1, <1>4, <1>5, <1>9, <2>1, DeviceTypes DEF StopLoad, TypeOK, Goto, Labels
<1>10. CASE StopStored \/ StopFailed
  <2>1. ls[0] \in Contents
    BY <1>1, <1>4 DEF TypeOK
  <2>2. QED
    BY <1>1, <1>4, <1>10, <2>1, DeviceTypes
    DEF StopStored, StopFailed, StopStore, TypeOK, Goto, Labels, local
<1>11. CASE UNCHANGED vars
  BY <1>1, <1>11 DEF vars, device, local, TypeOK, DeviceOK
<1>12. QED
  BY <1>2, <1>3, <1>4, <1>6, <1>7, <1>8, <1>9, <1>10, <1>11 DEF Next, Spu0, Spu1

-----------------------------------------------------------------------------
(* The inductive step. *)

\* SPU 1 only goes through the last ack_event.
LEMMA TestOne ==
  ASSUME IInv, TestStep(1)
  PROVE  Control' /\ Testing' /\ Recorded' /\ Fresh'
<1>1. /\ pc[1] = "tests" /\ ip[1] \in 26..28 /\ ip'[1] = ip[1] + 1 /\ ip'[0] = ip[0]
      /\ pc'[0] = pc[0]
      /\ ip[1] < 28 => pc'[1] = "tests"
      /\ ip[1] = 28 => pc'[1] = "inc_load"
      /\ UNCHANGED <<group, value>>
  <2>1. 1 \in Spus /\ pc \in [Spus -> Labels] /\ ip \in [Spus -> 1..29]
    BY Tests DEF IInv, TypeOK, Spus
  <2>2. QED
    BY <2>1, TestEffect DEF Spus
<1>2. TestMask(1) \/ TestAck(1) \/ TestDrain(1)
  <2>1. EventTests[ip[1]].op \notin {"getllar", "putllc", "putlluc", "put", "print"}
    BY <1>1, Tests
  <2>2. QED
    BY <2>1 DEF TestStep, At, TestGetllar, TestPutllc, TestPutlluc, TestPut, TestPrint
<1>3. /\ UNCHANGED <<mem, res, ls, printed, status>>
      /\ mask'[0] = mask[0] /\ pending'[0] = pending[0] /\ count'[0] = count[0]
  BY <1>2 DEF TestMask, TestAck, TestDrain, WriteMask, WriteAck, ReadStatus,
              IInv, TypeOK, DeviceOK, Spus
<1>4. Control'
  BY <1>1 DEF IInv, Control, Before, SkipEventsTests
<1>5. Testing'
  BY <1>1, <1>3 DEF IInv, Testing, Before
<1>6. Recorded'
  BY <1>1, <1>3 DEF IInv, Recorded
<1>7. Fresh'
  BY <1>1, <1>3 DEF IInv, Fresh
<1>8. QED
  BY <1>4, <1>5, <1>6, <1>7

\* A test step of SPU 0 touches neither the shared line nor SPU 1.
LEMMA TestZeroFrame ==
  ASSUME IInv, TestStep(0)
  PROVE  /\ pc[0] = "tests" /\ ip[0] \in 1..28 /\ ip'[0] = ip[0] + 1 /\ ip'[1] = ip[1]
         /\ pc'[1] = pc[1]
         /\ ip[0] < 28 => pc'[0] = "tests"
         /\ ip[0] = 28 => pc'[0] = "first_load"
         /\ UNCHANGED <<group, value>>
         /\ mem'["raddr"] = mem["raddr"] /\ ls'[1] = ls[1]
         /\ res'[1] = "raddr" => res[1] = "raddr"
         /\ res[1] = NoLine => res'[1] = NoLine
<1>1. /\ 0 \in Spus /\ 1 \in Spus /\ pc \in [Spus -> Labels] /\ ip \in [Spus -> 1..29]
      /\ mem \in [Lines -> Contents] /\ ls \in [Spus -> Contents]
      /\ res \in [Spus -> Lines \cup {NoLine}]
  BY Tests DEF IInv, TypeOK, DeviceOK, Spus
<1>2. /\ pc[0] = "tests" /\ ip[0] \in 1..28 /\ ip'[0] = ip[0] + 1 /\ ip'[1] = ip[1]
      /\ pc'[1] = pc[1]
      /\ ip[0] < 28 => pc'[0] = "tests"
      /\ ip[0] = 28 => pc'[0] = "first_load"
      /\ UNCHANGED <<group, value>>
  BY <1>1, TestEffect
<1>3. At(0, "getllar") \/ At(0, "putllc") \/ At(0, "putlluc") \/ At(0, "put") =>
        Line(0) \in {"raddr128", "raddr256"}
  BY <1>2, Tests DEF At, Line
<1>4. /\ mem'["raddr"] = mem["raddr"] /\ ls'[1] = ls[1]
      /\ res'[1] = "raddr" => res[1] = "raddr"
      /\ res[1] = NoLine => res'[1] = NoLine
  <2>1. CASE TestMask(0) \/ TestAck(0) \/ TestDrain(0) \/ TestPrint(0)
    BY <2>1 DEF TestMask, TestAck, TestDrain, TestPrint, WriteMask, WriteAck, ReadStatus
  <2>2. CASE TestGetllar(0)
    BY <1>1, <2>2 DEF TestGetllar, Getllar
  <2>3. CASE TestPutllc(0)
    BY <1>1, <1>3, <2>3 DEF TestPutllc, Putllc, StoreLine, Lines, NoLine
  <2>4. CASE TestPutlluc(0)
    BY <1>1, <1>3, <2>4 DEF TestPutlluc, Putlluc, StoreLine, Lines, NoLine
  <2>5. CASE TestPut(0)
    BY <1>1, <1>3, <2>5 DEF TestPut, Put, Lines, NoLine
  <2>6. QED
    BY <2>1, <2>2, <2>3, <2>4, <2>5 DEF TestStep
<1>5. QED
  BY <1>2, <1>4

\* What a sequence is after another event is printed.
LEMMA AppendOne ==
  ASSUME NEW q \in Seq(BOOLEAN), NEW e \in BOOLEAN
  PROVE  /\ Len(Append(q, e)) = Len(q) + 1 /\ Len(q) \in Nat
         /\ DOMAIN q = 1..Len(q) /\ DOMAIN Append(q, e) = 1..(Len(q) + 1)
         /\ \A i \in DOMAIN q : Append(q, e)[i] = q[i]
         /\ Append(q, e)[Len(q) + 1] = e
OBVIOUS

LEMMA TestZero ==
  ASSUME IInv, TestStep(0)
  PROVE  Control' /\ Testing' /\ Recorded' /\ Fresh'
<1>1. TypeOK /\ Control /\ Testing /\ Recorded /\ Fresh /\ 0 \in Spus /\ 1 \in Spus
  BY DEF IInv, Spus
<1>2. /\ pc[0] = "tests" /\ ip[0] \in 1..28 /\ ip'[0] = ip[0] + 1 /\ ip'[1] = ip[1]
      /\ pc'[1] = pc[1]
      /\ ip[0] < 28 => pc'[0] = "tests"
      /\ ip[0] = 28 => pc'[0] = "first_load"
      /\ UNCHANGED <<group, value>>
      /\ mem'["raddr"] = mem["raddr"] /\ ls'[1] = ls[1]
      /\ res'[1] = "raddr" => res[1] = "raddr"
      /\ res[1] = NoLine => res'[1] = NoLine
  BY TestZeroFrame
<1>3. Control'
  BY <1>1, <1>2 DEF Control, Before, Waiting
<1>4. Fresh'
  BY <1>1, <1>2 DEF Fresh
\* What holds of SPU 0's event state at its present step.
<1>5. /\ res[0] # "raddr" /\ (pending[0] <=> ip[0] \in 24..27)
      /\ ip[0] > 1 => mask[0]
      /\ ip[0] \in 24..25 => count[0] = 1
      /\ ip[0] = 23 => res[0] = "raddr128"
      /\ ip[0] = 24 => res[0] = NoLine
      /\ ip[0] > 24 => status = 1
      /\ Len(printed) = PrintedBefore(ip[0])
      /\ \A i \in DOMAIN printed : printed[i] = (i >= 4)
      /\ pc[1] \in Before => res[1] = NoLine
  BY <1>1, <1>2 DEF Testing, Before
\* The same of its next step, all that is left to show.
<1> DEFINE Tested ==
      /\ res'[0] # "raddr" /\ (pending'[0] <=> ip[0] \in 23..26)
      /\ mask'[0]
      /\ ip[0] \in 23..24 => count'[0] = 1
      /\ ip[0] = 28 => count'[0] = 0
      /\ ip[0] = 22 => res'[0] = "raddr128"
      /\ ip[0] = 23 => res'[0] = NoLine
      /\ ip[0] > 23 => status' = 1
      /\ Len(printed') = PrintedBefore(ip[0] + 1)
      /\ \A i \in DOMAIN printed' : printed'[i] = (i >= 4)
<1>6. ASSUME Tested PROVE Testing' /\ Recorded'
  <2>1. Testing'
    <3>1. pc'[1] \in Before => res'[1] = NoLine
      BY <1>2, <1>5
    <3>2. CASE ip[0] < 28
      <4>1. pc'[0] \in Before /\ ip'[0] \in 2..28
        BY <1>2, <3>2 DEF Before
      <4>2. /\ ip'[0] \in 24..27 <=> ip[0] \in 23..26
            /\ ip'[0] \in 24..25 <=> ip[0] \in 23..24
            /\ ip'[0] = 23 <=> ip[0] = 22
            /\ ip'[0] = 24 <=> ip[0] = 23
            /\ ip'[0] > 24 <=> ip[0] > 23
        BY <1>2
      <4>3. PrintedBefore(ip'[0]) >= 4 => ip[0] > 23
        BY <1>2 DEF PrintedBefore
      <4>4. Len(printed') = PrintedBefore(ip'[0])
        BY <1>2, <1>6
      <4>5. QED
        BY <1>6, <3>1, <4>1, <4>2, <4>3, <4>4 DEF Testing
    <3>3. CASE ip[0] = 28
      <4>1. pc'[0] \notin Before /\ status' = 1
        BY <1>2, <1>6, <3>3 DEF Before
      <4>2. QED
        BY <1>6, <3>1, <4>1 DEF Testing
    <3>4. QED
      BY <1>2, <3>2, <3>3
  <2>2. CASE ip[0] < 28
    BY <1>2, <2>1, <2>2 DEF Recorded, Waiting, Recording, Last
  <2>3. CASE ip[0] = 28
    <3>1. pc'[0] = "first_load" /\ ~pending'[0] /\ count'[0] = 0 /\ mask'[0]
          /\ res'[0] # "raddr"
      BY <1>2, <1>6, <2>3
    <3>2. Len(printed') = 4
      BY <1>6, <2>3 DEF PrintedBefore
    <3>3. Recorded'
      BY <3>1, <3>2 DEF Recorded, Waiting, Recording, Last
    <3>4. QED
      BY <2>1, <3>3
  <2>4. QED
    BY <1>2, <2>1, <2>2, <2>3
<1>7. /\ res \in [Spus -> Lines \cup {NoLine}] /\ pending \in [Spus -> BOOLEAN]
      /\ mask \in [Spus -> BOOLEAN] /\ count \in [Spus -> 0..1]
  BY <1>1 DEF TypeOK, DeviceOK
<1>8. ASSUME TestMask(0) PROVE Tested
  <2>1. ip[0] \in {1, 7, 13, 19, 26}
    BY <1>2, <1>8, Tests DEF TestMask, At
  <2>2. /\ mask'[0] = TRUE /\ count'[0] = (IF pending[0] THEN 1 ELSE count[0])
        /\ UNCHANGED <<res, pending, printed, status>>
    BY <1>1, <1>7, <1>8 DEF TestMask, WriteMask
  <2>3. QED
    BY <1>5, <2>1, <2>2 DEF PrintedBefore
<1>9. ASSUME TestAck(0) PROVE Tested
  <2>1. ip[0] \in {2, 8, 14, 20, 27}
    BY <1>2, <1>9, Tests DEF TestAck, At
  <2>2. pending'[0] = FALSE /\ UNCHANGED <<res, mask, count, printed, status>>
    BY <1>1, <1>7, <1>9 DEF TestAck, WriteAck
  <2>3. QED
    BY <1>5, <2>1, <2>2 DEF PrintedBefore
<1>10. ASSUME TestDrain(0) PROVE Tested
  <2>1. ip[0] \in {3, 9, 15, 21, 28}
    BY <1>2, <1>10, Tests DEF TestDrain, At
  <2>2. count'[0] = 0 /\ UNCHANGED <<res, mask, pending, printed, status>>
    BY <1>1, <1>7, <1>10 DEF TestDrain, ReadStatus
  <2>3. QED
    BY <1>5, <2>1, <2>2 DEF PrintedBefore
<1>11. ASSUME TestGetllar(0) PROVE Tested
  <2>1. ip[0] \in {4, 5, 10, 16, 22} /\ Line(0) # "raddr"
        /\ (ip[0] = 22 => Line(0) = "raddr128")
    BY <1>2, <1>11, Tests DEF TestGetllar, At, Line
  <2>2. res'[0] = Line(0) /\ UNCHANGED <<mask, pending, count, printed, status>>
    BY <1>1, <1>7, <1>11 DEF TestGetllar, Getllar
  <2>3. QED
    BY <1>5, <2>1, <2>2 DEF PrintedBefore
<1>12. ASSUME TestPutllc(0) PROVE Tested
  <2>1. ip[0] \in {11, 24} /\ Line(0) # "none" /\ (ip[0] = 24 => Line(0) = "raddr128")
    BY <1>2, <1>12, Tests DEF TestPutllc, At, Line
  <2>2. /\ res'[0] = NoLine /\ pending'[0] = pending[0] /\ count'[0] = count[0]
        /\ mask'[0] = mask[0] /\ printed' = printed
        /\ status' = IF res[0] = Line(0) THEN 0 ELSE 1
    BY <1>1, <1>7, <1>12 DEF TestPutllc, Putllc, StoreLine, Raise
  <2>3. ip[0] = 24 => status' = 1
    BY <1>5, <2>1, <2>2 DEF NoLine
  <2>4. QED
    BY <1>5, <2>1, <2>2, <2>3 DEF PrintedBefore, NoLine
<1>13. ASSUME TestPutlluc(0) PROVE Tested
  <2>1. ip[0] = 17
    BY <1>2, <1>13, Tests DEF TestPutlluc, At
  <2>2. /\ res'[0] = NoLine /\ pending'[0] = pending[0] /\ count'[0] = count[0]
        /\ UNCHANGED <<mask, printed, status>>
    BY <1>1, <1>7, <1>13 DEF TestPutlluc, Putlluc, StoreLine, Raise
  <2>3. QED
    BY <1>5, <2>1, <2>2 DEF PrintedBefore, NoLine
<1>14. ASSUME TestPut(0) PROVE Tested
  <2>1. ip[0] = 23 /\ Line(0) = "raddr128"
    BY <1>2, <1>14, Tests DEF TestPut, At, Line
  <2>2. 0 \in Holders("raddr128") /\ mask[0]
    BY <1>1, <1>5, <2>1 DEF Holders
  <2>3. /\ res'[0] = NoLine /\ pending'[0] = TRUE /\ count'[0] = 1
        /\ UNCHANGED <<mask, printed, status>>
    BY <1>1, <1>14, <2>1, <2>2 DEF TestPut, Put, Raise, Holders
  <2>4. QED
    BY <1>5, <2>1, <2>2, <2>3 DEF PrintedBefore, NoLine
<1>15. ASSUME TestPrint(0) PROVE Tested
  <2>1. ip[0] \in {6, 12, 18, 25}
    BY <1>2, <1>15, Tests DEF TestPrint, At
  <2>2. /\ count'[0] = 0 /\ UNCHANGED <<res, mask, pending, status>>
        /\ printed' = Append(printed, Status(0))
    BY <1>1, <1>7, <1>15 DEF TestPrint, ReadStatus
  <2>3. /\ printed \in Seq(BOOLEAN) /\ Status(0) \in BOOLEAN
        /\ (Status(0) <=> ip[0] = 25)
    BY <1>1, <1>5, <2>1 DEF TypeOK, Status
  <2>4. /\ Len(printed') = Len(printed) + 1
        /\ DOMAIN printed = 1..Len(printed) /\ DOMAIN printed' = 1..(Len(printed) + 1)
        /\ \A i \in DOMAIN printed : printed'[i] = printed[i]
        /\ printed'[Len(printed) + 1] = Status(0)
        /\ Len(printed) \in Nat
    BY <2>2, <2>3, AppendOne
  <2>5. Len(printed) + 1 >= 4 <=> ip[0] = 25
    BY <1>5, <2>1, <2>4 DEF PrintedBefore
  <2>6. ASSUME NEW i \in DOMAIN printed' PROVE printed'[i] = (i >= 4)
    <3>1. CASE i \in DOMAIN printed
      BY <1>5, <2>4, <3>1
    <3>2. CASE i = Len(printed) + 1
      <4>1. Status(0) = (i >= 4)
        BY <2>3, <2>4, <2>5, <3>2
      <4>2. QED
        BY <2>4, <3>2, <4>1
    <3>3. QED
      BY <2>4, <3>1, <3>2
  <2>7. QED
    BY <1>5, <2>1, <2>2, <2>4, <2>6 DEF PrintedBefore
<1>16. Tested
  BY <1>8, <1>9, <1>10, <1>11, <1>12, <1>13, <1>14, <1>15 DEF TestStep
<1> HIDE DEF Tested
<1>17. QED
  BY <1>3, <1>4, <1>6, <1>16

\* The PPU's steps, and SPU 1's two commands.
LEMMA GroupStep ==
  ASSUME IInv, Ppu
  PROVE  Control' /\ Testing' /\ Recorded' /\ Fresh'
<1>1. TypeOK /\ Control /\ Testing /\ Recorded /\ Fresh /\ 0 \in Spus /\ 1 \in Spus
  BY DEF IInv, Spus
<1>2. CASE StartGroup
  <2>1. /\ pc[0] = "off" /\ pc'[0] = "tests" /\ pc[1] = "off" /\ pc'[1] = "tests"
        /\ group' = "started" /\ UNCHANGED <<device, local>>
    BY <1>1, <1>2 DEF StartGroup, Control
  <2>2. QED
    BY <1>1, <2>1 DEF Control, Testing, Recorded, Fresh, Before, Waiting, Recording, Last,
       device, local
<1>3. CASE JoinGroup
  BY <1>1, <1>3 DEF JoinGroup, Control, Testing, Recorded, Fresh, device, local
<1>4. QED
  BY <1>2, <1>3 DEF Ppu

LEMMA IncLoadStep ==
  ASSUME IInv, IncLoad
  PROVE  Control' /\ Testing' /\ Recorded' /\ Fresh'
<1>1. TypeOK /\ Control /\ Testing /\ Recorded /\ Fresh /\ 0 \in Spus /\ 1 \in Spus
  BY DEF IInv, Spus
<1>2. /\ pc \in [Spus -> Labels] /\ ls \in [Spus -> Contents]
      /\ res \in [Spus -> Lines \cup {NoLine}] /\ mem["raddr"] \in Contents
  BY <1>1 DEF TypeOK, DeviceOK, Lines
<1>3. /\ pc'[0] = pc[0] /\ res'[0] = res[0] /\ ls'[0] = ls[0] /\ pc[1] = "inc_load"
      /\ UNCHANGED <<mem, pending, mask, count, ip, value, printed, status, group>>
      /\ \/ pc'[1] = "exited"
         \/ /\ pc'[1] = "inc_store" /\ ~mem["raddr"].stop
            /\ ls'[1] = [mem["raddr"] EXCEPT !.word = (@ + 1) % Word]
  BY <1>1, <1>2 DEF IncLoad, Getllar, Goto, Spus
<1>4. pc'[1] = "inc_store" =>
        /\ ~mem["raddr"].stop /\ ~ls'[1].stop
        /\ ls'[1].word = (mem["raddr"].word + 1) % Word
  BY <1>2, <1>3 DEF Contents
<1>5. Control'
  BY <1>1, <1>3 DEF Control, Before
<1>6. Testing'
  BY <1>1, <1>3 DEF Testing, Before
<1>7. Recorded'
  BY <1>1, <1>3 DEF Recorded
<1>8. Fresh'
  BY <1>1, <1>3, <1>4 DEF Fresh
<1>9. QED
  BY <1>5, <1>6, <1>7, <1>8

\* The store takes effect only on the very line that was loaded; an SPU 0 that
\* holds the line loses it and has the event.
LEMMA IncStoreStep ==
  ASSUME IInv, IncStore
  PROVE  Control' /\ Testing' /\ Recorded' /\ Fresh'
<1>1. TypeOK /\ Control /\ Testing /\ Recorded /\ Fresh /\ 0 \in Spus /\ 1 \in Spus
  BY DEF IInv, Spus
<1>2. /\ pc \in [Spus -> Labels] /\ mem \in [Lines -> Contents] /\ "raddr" \in Lines
      /\ res \in [Spus -> Lines \cup {NoLine}]
  BY <1>1 DEF TypeOK, DeviceOK, Lines
<1>3. /\ pc[1] = "inc_store" /\ pc'[1] = "inc_load" /\ pc'[0] = pc[0]
      /\ UNCHANGED <<local, group>> /\ ~ls[1].stop
  BY <1>1, <1>2 DEF IncStore, Goto, Spus, Fresh
<1>4. CASE res[1] # "raddr"
  <2>1. UNCHANGED <<mem, pending, mask, count>> /\ res'[0] = res[0]
    BY <1>1, <1>2, <1>4 DEF IncStore, Putllc, Spus
  <2>2. QED
    BY <1>1, <1>3, <2>1 DEF Control, Testing, Recorded, Fresh, Before, local
<1>5. CASE res[1] = "raddr"
  <2>1. /\ mem'["raddr"] = ls[1] /\ mask' = mask
        /\ res'[0] = IF res[0] = "raddr" THEN NoLine ELSE res[0]
        /\ pending'[0] = (res[0] = "raddr" \/ pending[0])
        /\ count'[0] = IF res[0] = "raddr" /\ mask[0] THEN 1 ELSE count[0]
    BY <1>1, <1>2, <1>5 DEF IncStore, Putllc, StoreLine, Raise, Holders, Spus
  <2>2. Control'
    BY <1>1, <1>3 DEF Control, Before, local
  <2>3. Testing'
    BY <1>1, <1>3, <2>1 DEF Testing, Before, local, NoLine
  <2>4. Recorded'
    BY <1>1, <1>3, <2>1 DEF Recorded, Waiting, Recording, Last, local, NoLine
  <2>5. Fresh'
    BY <1>1, <1>3, <2>1 DEF Fresh, local, NoLine
  <2>6. QED
    BY <2>2, <2>3, <2>4, <2>5
<1>6. QED
  BY <1>4, <1>5

-----------------------------------------------------------------------------
\* SPU 0 after the event tests.
LEMMA WaitStep ==
  ASSUME IInv, FirstLoad \/ SeeNoChange \/ SeeChange \/ LosePrevious
  PROVE  Control' /\ Testing' /\ Recorded' /\ Fresh'
<1>1. TypeOK /\ Control /\ Testing /\ Recorded /\ Fresh /\ 0 \in Spus /\ 1 \in Spus
  BY DEF IInv, Spus
<1>2. /\ pc \in [Spus -> Labels] /\ ls \in [Spus -> Contents]
      /\ res \in [Spus -> Lines \cup {NoLine}]
  BY <1>1 DEF TypeOK, DeviceOK
<1>3. /\ pc'[1] = pc[1] /\ res'[1] = res[1] /\ ls'[1] = ls[1]
      /\ pc[0] \in Waiting \cup Recording /\ pc'[0] \in Waiting \cup Recording
      /\ pc'[0] # "first_load"
      /\ UNCHANGED <<mem, pending, mask, count, ip, printed, status, group>>
  BY <1>1, <1>2 DEF FirstLoad, SeeNoChange, SeeChange, WaitLoad, LosePrevious, Getllar,
     Goto, Waiting, Recording, Spus
<1>4. /\ pc'[0] = "wait_change" =>
           res'[0] = "raddr" /\ mem["raddr"].word = value'
      /\ pc'[0] \in Recording => pending[0]
  BY <1>1, <1>2 DEF FirstLoad, SeeNoChange, SeeChange, WaitLoad, LosePrevious, Getllar,
     Goto, Recorded, Waiting, Recording
<1>5. Control'
  BY <1>1, <1>3 DEF Control, Before, Waiting, Recording
<1>6. Testing'
  BY <1>1, <1>3 DEF Testing, Before, Waiting, Recording
<1>7. Recorded'
  BY <1>1, <1>3, <1>4 DEF Recorded, Waiting, Recording, Last
<1>8. Fresh'
  BY <1>1, <1>3 DEF Fresh, Waiting, Recording
<1>9. QED
  BY <1>5, <1>6, <1>7, <1>8

LEMMA PrintStep ==
  ASSUME IInv, PrintRecorded
  PROVE  Control' /\ Testing' /\ Recorded' /\ Fresh'
<1>1. TypeOK /\ Control /\ Testing /\ Recorded /\ Fresh /\ 0 \in Spus /\ 1 \in Spus
  BY DEF IInv, Spus
<1>2. /\ pc'[1] = pc[1] /\ pc[0] = "record" /\ pc'[0] = "stop_load"
      /\ UNCHANGED <<mem, res, pending, mask, ls, ip, value, status, group>>
      /\ printed' = Append(printed, Status(0))
  BY <1>1 DEF PrintRecorded, ReadStatus, Goto, TypeOK, Spus
<1>3. printed \in Seq(BOOLEAN) /\ Len(printed) = 4 /\ Status(0) \in BOOLEAN
  BY <1>1, <1>2 DEF TypeOK, Recorded, Recording, Status
<1>4. Status(0)
  BY <1>1, <1>2 DEF TypeOK, DeviceOK, Recorded, Recording, Status
<1>5. /\ Len(printed') = 5 /\ DOMAIN printed' = 1..5 /\ DOMAIN printed = 1..4
      /\ \A i \in DOMAIN printed : printed'[i] = printed[i]
      /\ printed'[5] = Status(0)
  <2>1. /\ Len(printed') = Len(printed) + 1 /\ DOMAIN printed = 1..Len(printed)
        /\ DOMAIN printed' = 1..(Len(printed) + 1)
        /\ \A i \in DOMAIN printed : printed'[i] = printed[i]
        /\ printed'[Len(printed) + 1] = Status(0)
    BY <1>2, <1>3, AppendOne, ZenonT(30)
  <2>2. QED
    BY <1>3, <2>1
<1>6. ASSUME NEW i \in DOMAIN printed' PROVE printed'[i] = (i >= 4)
  <2>1. CASE i \in DOMAIN printed
    BY <1>1, <1>5, <2>1 DEF Testing
  <2>2. CASE i = 5
    <3>1. Status(0) = (i >= 4)
      BY <1>3, <1>4, <2>2
    <3>2. QED
      BY <1>5, <2>2, <3>1
  <2>3. QED
    BY <1>5, <2>1, <2>2
<1>7. Control'
  BY <1>1, <1>2 DEF Control, Before, Last
<1>8. Testing'
  BY <1>1, <1>2, <1>6 DEF Testing, Before
<1>9. Recorded'
  BY <1>2, <1>5 DEF Recorded, Waiting, Recording, Last
<1>10. Fresh'
  BY <1>1, <1>2 DEF Fresh
<1>11. QED
  BY <1>7, <1>8, <1>9, <1>10

\* The stop is stored only by SPU 0, which then does nothing more.
LEMMA StopStep ==
  ASSUME IInv, StopLoad \/ StopStored \/ StopFailed
  PROVE  Control' /\ Testing' /\ Recorded' /\ Fresh'
<1>1. TypeOK /\ Control /\ Testing /\ Recorded /\ Fresh /\ 0 \in Spus /\ 1 \in Spus
  BY DEF IInv, Spus
<1>2. /\ pc \in [Spus -> Labels] /\ ls \in [Spus -> Contents]
      /\ mem \in [Lines -> Contents] /\ "raddr" \in Lines /\ mem["raddr"] \in Contents
      /\ res \in [Spus -> Lines \cup {NoLine}]
  BY <1>1 DEF TypeOK, DeviceOK, Lines
<1>3. /\ pc[0] \in Last /\ pc'[0] \in Last /\ pc[0] # "exited" /\ pc'[1] = pc[1]
      /\ UNCHANGED <<ip, value, printed, status, group>> /\ ls'[1] = ls[1]
  BY <1>1, <1>2 DEF StopLoad, StopStored, StopFailed, StopStore, Goto, Last, local, Spus
<1>4. Control'
  BY <1>1, <1>3 DEF Control, Before, Last
<1>5. Recorded'
  BY <1>1, <1>3 DEF Recorded, Waiting, Recording, Last
<1>6. Testing' /\ Fresh'
  <2>1. CASE StopLoad
    <3>1. /\ pc'[0] = "stop_store" /\ ls'[0] = [mem["raddr"] EXCEPT !.stop = TRUE]
          /\ UNCHANGED <<mem, pending, mask, count>> /\ res'[1] = res[1]
      BY <1>1, <1>2, <2>1 DEF StopLoad, Getllar, Goto, Spus
    <3>2. ls'[0].stop /\ ls'[0].word = mem["raddr"].word
      BY <1>2, <3>1 DEF Contents
    <3>3. Fresh'
      BY <1>1, <1>3, <3>1, <3>2 DEF Fresh
    <3>4. QED
      BY <1>1, <1>3, <3>1, <3>3 DEF Testing, Before, Last
  <2>2. CASE StopFailed
    <3>1. /\ pc'[0] = "stop_load" /\ UNCHANGED <<mem, ls>> /\ res'[1] = res[1]
      BY <1>1, <1>2, <2>2 DEF StopFailed, StopStore, Putllc, Goto, Spus, local
    <3>2. QED
      BY <1>1, <1>3, <3>1 DEF Testing, Fresh, Before, Last
  <2>3. CASE StopStored
    <3>1. /\ pc'[0] = "exited" /\ UNCHANGED ls /\ mem'["raddr"] = ls[0]
          /\ res'[1] = IF res[1] = "raddr" THEN NoLine ELSE res[1]
      BY <1>1, <1>2, <2>3 DEF StopStored, StopStore, Putllc, StoreLine, Holders, Goto,
         Spus, local
    <3>2. QED
      BY <1>1, <1>3, <3>1 DEF Testing, Fresh, Before, Last, NoLine
  <2>4. QED
    BY <2>1, <2>2, <2>3
<1>7. QED
  BY <1>4, <1>5, <1>6

\* Every step of the program keeps the invariant.
LEMMA StepIInv == IInv /\ [Next]_vars => IInv'
<1> SUFFICES ASSUME IInv, [Next]_vars PROVE Control' /\ Testing' /\ Recorded' /\ Fresh'
  BY TypeStep DEF IInv
<1>1. CASE Ppu
  BY <1>1, GroupStep
<1>2. CASE Spu0
  BY <1>2, TestZero, WaitStep, PrintStep, StopStep DEF Spu0
<1>3. CASE Spu1
  BY <1>3, TestOne, IncLoadStep, IncStoreStep DEF Spu1
<1>4. CASE UNCHANGED vars
  BY <1>4 DEF IInv, Control, Testing, Recorded, Fresh, vars, device, local
<1>5. QED
  BY <1>1, <1>2, <1>3, <1>4 DEF Next

\* The inductive invariant holds throughout.
THEOREM Invariance == SafeSpec => []IInv
BY InitIInv, StepIInv, PTL DEF SafeSpec
-----------------------------------------------------------------------------
(* What the runs check of a small word, for a word of any width. *)

\* The type invariant.
THEOREM TypeCorrect == SafeSpec => []TypeOK
<1>1. IInv => TypeOK
  BY DEF IInv
<1>2. QED
  BY <1>1, Invariance, PTL

\* The first four printed lines are those of expected.txt.
THEOREM TestsPrintAsExpected == SafeSpec => []EventsAsExpected
<1>1. IInv => EventsAsExpected
  <2>1. IInv => \A i \in DOMAIN printed \cap 1..4 : printed[i] = (i = 4)
    BY DEF IInv, Testing
  <2>2. IInv => (Len(printed) >= 4 => status = 1)
    BY DEF IInv, Testing
  <2>3. QED
    BY <2>1, <2>2 DEF EventsAsExpected
<1>2. QED
  BY <1>1, Invariance, PTL

\* The wait begins with no event left from the tests.
THEOREM NothingLeftOver == SafeSpec => []NoStaleEvent
<1>1. IInv => NoStaleEvent
  BY DEF IInv, Recorded, NoStaleEvent
<1>2. QED
  BY <1>1, Invariance, PTL

\* The lost reservation is recorded, and no event from before it.
THEOREM LossIsRecorded == SafeSpec => []EventMustBeRecorded
<1>1. IInv => EventMustBeRecorded
  <2> SUFFICES ASSUME IInv, Len(printed) = 5 PROVE printed[5]
    BY DEF EventMustBeRecorded, NoStaleEvent, IInv, Recorded
  <2>1. 5 \in DOMAIN printed
    BY DEF IInv, TypeOK
  <2>2. printed[5] = (5 >= 4)
    BY <2>1 DEF IInv, Testing
  <2>3. (5 >= 4) = TRUE
    OBVIOUS
  <2>4. QED
    BY <2>2, <2>3, Zenon
<1>2. QED
  BY <1>1, Invariance, PTL

\* No update of the shared line is lost, whichever SPU stores to it.
THEOREM UpdatesAreKept == SafeSpec => NoLostUpdate
<1>1. IInv /\ [Next]_vars =>
        [/\ mem'["raddr"].word \in {mem["raddr"].word, (mem["raddr"].word + 1) % Word}
         /\ mem["raddr"].stop => mem'["raddr"] = mem["raddr"]]_mem
  <2> SUFFICES ASSUME IInv, [Next]_vars, mem' # mem
               PROVE  /\ mem'["raddr"].word \in
                           {mem["raddr"].word, (mem["raddr"].word + 1) % Word}
                      /\ mem["raddr"].stop => mem'["raddr"] = mem["raddr"]
    OBVIOUS
  <2>1. /\ mem \in [Lines -> Contents] /\ "raddr" \in Lines /\ 0 \in Spus /\ 1 \in Spus
        /\ res \in [Spus -> Lines \cup {NoLine}] /\ Fresh
    BY DEF IInv, TypeOK, DeviceOK, Lines, Spus
  <2>2. CASE TestStep(0)
    BY <2>2, TestZeroFrame
  <2>3. CASE TestStep(1)
    <3>1. ip[1] \in 26..28 /\ pc[1] = "tests"
      BY <2>1, <2>3, TestEffect
    <3>2. EventTests[ip[1]].op \notin {"getllar", "putllc", "putlluc", "put", "print"}
      BY <3>1, Tests
    <3>3. QED
      BY <2>3, <3>2 DEF TestStep, At, TestGetllar, TestPutllc, TestPutlluc, TestPut,
         TestPrint, TestMask, TestAck, TestDrain, WriteMask, WriteAck, ReadStatus
  <2>4. CASE IncStore
    BY <2>1, <2>4 DEF IncStore, Putllc, StoreLine, Fresh
  <2>5. CASE StopStored
    BY <2>1, <2>5 DEF StopStored, StopStore, Putllc, StoreLine, Fresh
  <2>6. CASE UNCHANGED mem
    BY <2>6
  <2>7. QED
    BY <2>2, <2>3, <2>4, <2>5, <2>6
    DEF Next, Ppu, Spu0, Spu1, StartGroup, JoinGroup, IncLoad, FirstLoad, SeeNoChange,
        SeeChange, WaitLoad, LosePrevious, PrintRecorded, StopLoad, StopFailed, StopStore,
        Getllar, Putllc, ReadStatus, vars, device
<1>2. QED
  BY <1>1, Invariance, PTL DEF SafeSpec, NoLostUpdate
=============================================================================
