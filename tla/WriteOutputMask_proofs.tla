----------------------- MODULE WriteOutputMask_proofs -----------------------
(***************************************************************************)
(* What holds of the test for every number of bits and of valid masks, and *)
(* however far the engine is behind.                                       *)
(***************************************************************************)
EXTENDS WriteOutputMask, TLAPS

Booting == {"wait_for_fifo", "jump"}
Recording == {"record", "annul"}
Running == {"flush", "wait"}

\* What an offset holds, or will hold when its store has arrived.
WillBe(o, c) == IF o \in DOMAIN stores THEN stores[o] = c ELSE io[o] = c

\* The RSX has read everything, or is in the stop of the last iteration.
Parked == \/ it = 0 /\ get = Boot /\ put = Boot
          \/ it > 0 /\ put = End /\ get = NotBranchToSelf /\ io[get] = Jmp(get)

BootInv == pc \in Booting =>
             /\ it = 0 /\ bit = 0 /\ put = Boot /\ get \in {0, Boot}
             /\ pc = "jump" => get = Boot
             /\ io = [o \in Offsets |-> Nop]
             /\ stores = <<>> /\ ~clearing /\ pipe = <<>> /\ frame = <<>>

ParkInv == pc \in Recording \cup {"finished"} =>
             /\ Parked /\ pipe = <<>>
             /\ get # put => get \notin DOMAIN stores

MemInv ==
  /\ pc \notin Booting => WillBe(Boot, Jmp(Start))
  /\ pc \notin Recording => stores = <<>> /\ ~clearing
  /\ pc = "annul" => /\ \A o \in Start..(End - 1) : WillBe(o, Recorded[o])
                     /\ clearing \/ frame = <<>>
  /\ pc \in Running => \A o \in Start..(End - 1) :
                         io[o] = IF o = NotBranchToSelf THEN Nop ELSE Recorded[o]

NoDraw(p) == \A i \in 1..Len(p) : p[i].op # "draw"

\* Where the RSX is before and after the draw of this iteration.
Before == {Boot, Start, NotBranchToSelf, NotBranchToSelf + 1}
Between == (Start + 1)..(BranchSync - 1)
After == {BranchSync, BranchToSelf}

\* The draw is the first method in the pipe, or has been executed.
OneDraw == \/ frame = <<>> /\ pipe # <<>> /\ Head(pipe) = Draw(TestedMask) /\ NoDraw(Tail(pipe))
           \/ frame = <<TestedMask>> /\ NoDraw(pipe)

DrawInv == pc \in Running =>
             /\ get \in Before \cup Between \cup After
             /\ get \in Before => pipe = <<>> /\ frame = <<>>
             /\ get \in Between => OneDraw
             /\ get \in After => pipe = <<>> /\ frame = <<TestedMask>>
             /\ IF pc = "flush" /\ it = 0 THEN get = Boot /\ put = Boot ELSE put = End

CountInv == /\ printed \in Seq([mask : Masks, frame : Seq(Masks)])
            /\ bit = it % (Bits + 1)
            /\ IF pc = "finished" THEN it = Iterations ELSE it < Iterations
            /\ \A i \in 1..it : /\ printed[i].frame = <<printed[i].mask>>
                                /\ printed[i].mask = [valid |-> (i - 1) \div (Bits + 1),
                                                      bit |-> (i - 1) % (Bits + 1)]

IInv == TypeOK /\ BootInv /\ ParkInv /\ MemInv /\ DrawInv /\ CountInv
-----------------------------------------------------------------------------
(* Iterations are counted in two places: it and bit. *)

LEMMA TimesMonotone ==
  ASSUME NEW a \in Nat, NEW b \in Nat, NEW d \in Nat, a < b PROVE d * b >= d * a + d
  <1>1. PICK c \in Nat : b = a + 1 + c
    BY SMT
  <1>2. d * b = d * a + d + d * c
    BY <1>1, SMT
  <1>3. d * c >= 0 /\ d * a \in Nat
    BY SMT
  <1> QED BY <1>2, <1>3, SMT

LEMMA DivMod ==
  ASSUME NEW n \in Nat, NEW d \in Nat \ {0}
  PROVE  n = d * (n \div d) + (n % d) /\ n % d \in 0..(d - 1) /\ n \div d \in Nat
  BY SMT

LEMMA DivModUnique ==
  ASSUME NEW n \in Nat, NEW d \in Nat \ {0}, NEW q \in Nat, NEW r \in 0..(d - 1), n = d * q + r
  PROVE  n \div d = q /\ n % d = r
  <1>1. PICK k \in Nat, m \in 0..(d - 1) : k = n \div d /\ m = n % d /\ n = d * k + m
    BY DivMod
  <1>2. CASE q < k
    <2>1. d * k >= d * q + d
      BY <1>2, TimesMonotone
    <2> QED BY <1>1, <2>1, SMT
  <1>3. CASE k < q
    <2>1. d * q >= d * k + d
      BY <1>3, TimesMonotone
    <2> QED BY <1>1, <2>1, SMT
  <1> QED BY <1>1, <1>2, <1>3

\* A shift by one, that after the last bit leaves 0, follows the count.
LEMMA ShiftFollows ==
  ASSUME NEW n \in Nat, NEW d \in Nat \ {0} PROVE (n + 1) % d = ((n % d) + 1) % d
  <1>1. PICK q \in Nat, r \in 0..(d - 1) : q = n \div d /\ r = n % d /\ n = d * q + r
    BY DivMod
  <1>2. PICK p \in Nat, s \in Nat : p = n + 1 /\ s = r + 1
    OBVIOUS
  <1>3. CASE s < d
    <2>1. p = d * q + s /\ s = d * 0 + s /\ s \in 0..(d - 1)
      BY <1>1, <1>2, <1>3, SMT
    <2>2. p % d = s /\ s % d = s
      BY <2>1, DivModUnique
    <2> QED BY <1>1, <1>2, <2>2
  <1>4. CASE s = d
    <2>1. p = d * (q + 1) + 0 /\ s = d * 1 + 0 /\ 0 \in 0..(d - 1) /\ q + 1 \in Nat
      BY <1>1, <1>2, <1>4, SMT
    <2>2. p % d = 0 /\ s % d = 0
      BY <2>1, DivModUnique
    <2> QED BY <1>1, <1>2, <2>2
  <1> QED BY <1>1, <1>2, <1>3, <1>4

LEMMA IterationsNat == Iterations \in Nat /\ Bits + 1 \in Nat \ {0}
  BY WriteOutputMaskAssumption DEF Iterations, WriteOutputMaskAssumption

\* In every iteration the mask is one of those to be tested.
LEMMA MaskIsOne ==
  ASSUME NEW n \in Nat, n < Iterations
  PROVE  [valid |-> n \div (Bits + 1), bit |-> n % (Bits + 1)] \in Masks
  <1>1. PICK d \in Nat \ {0} : d = Bits + 1
    BY IterationsNat
  <1>2. PICK k \in Nat, m \in 0..(d - 1) : k = n \div d /\ m = n % d /\ n = d * k + m
    BY DivMod
  <1>3. ValidMasks \in Nat /\ n < d * ValidMasks /\ Bits \in Nat
    BY <1>1, WriteOutputMaskAssumption DEF Iterations, WriteOutputMaskAssumption
  <1>4. k < ValidMasks
    <2>1. CASE ValidMasks < k
      <3>1. d * k >= d * ValidMasks + d
        BY <1>3, <2>1, TimesMonotone
      <3> QED BY <1>2, <1>3, <3>1, SMT
    <2>2. CASE ValidMasks = k
      BY <1>2, <1>3, <2>2, SMT
    <2> QED BY <1>3, <2>1, <2>2
  <1> QED BY <1>1, <1>2, <1>3, <1>4 DEF Masks
-----------------------------------------------------------------------------
(* What is recorded, and what the RSX makes of it. *)

Simple == {"label", "wait_label", "flip", "wait_flip"}

LEMMA CommandShape ==
  ASSUME NEW c \in CommandsOK
  PROVE  /\ c.op \in Simple \cup {"nop", "jmp", "draw", "ref"}
         /\ c.op = "jmp" => c.arg \in Offsets
         /\ c.op = "draw" => c.arg \in Masks /\ c = Draw(c.arg)
         /\ c.op \in {"label", "wait_label"} => c.arg.at \in Words
         /\ c.op = "label" => c.arg.value \in {0, SwapBytes(Fenced)}
         /\ c.op = "ref" => c.arg = 2
  BY DEF CommandsOK, Simple, Draw, Cmd

LEMMA JumpIsCommand == \A o \in Offsets : Jmp(o) \in CommandsOK /\ Jmp(o).op = "jmp" /\ Jmp(o).arg = o
  BY DEF CommandsOK, Jmp, Cmd

LEMMA Layout == /\ Boot = 1 /\ Start = 2 /\ BranchSync = 12 /\ SyncPoint1 = 14 /\ SyncPoint2 = 16
                /\ End = 18 /\ Offsets = 0..18
                /\ BranchToSelf \in {14, 16} /\ NotBranchToSelf \in {14, 16}
  BY DEF Boot, Start, BranchSync, SyncPoint1, SyncPoint2, End, Offsets, BranchToSelf, NotBranchToSelf

\* The stops are used by turns.
LEMMA Turns == ASSUME it \in Nat
               PROVE  /\ BranchToSelf # NotBranchToSelf
                      /\ it' = it + 1 => NotBranchToSelf' = BranchToSelf
  BY DEF BranchToSelf, NotBranchToSelf, SyncPoint1, SyncPoint2

LEMMA RecordedShape ==
  ASSUME TestedMask \in Masks
  PROVE  /\ DOMAIN Recorded = Start..(End - 1)
         /\ \A o \in Start..(End - 1) : Recorded[o] \in CommandsOK
         /\ Recorded[Start] = Draw(TestedMask)
         /\ Recorded[BranchSync - 1].op = "ref"
         /\ \A o \in Between \ {BranchSync - 1} : Recorded[o].op \in Simple
         /\ Recorded[BranchSync] = Jmp(BranchToSelf)
         /\ \A o \in {SyncPoint1, SyncPoint2} : Recorded[o] = Jmp(o) /\ Recorded[o + 1] = Jmp(Start)
  <1>1. DOMAIN Recorded = 2..17 /\ \A o \in 2..17 : Recorded[o] = Commands[o - 1]
    BY DEF Recorded, Start, End
  <1>2. /\ Commands[1] = Draw(TestedMask)
        /\ Commands[2] = WriteLabel(Fenced) /\ Commands[3] = WaitLabel(Fenced)
        /\ Commands[4] = WriteLabel(0) /\ Commands[5] = WriteLabel(Fenced)
        /\ Commands[6] = WaitLabel(Fenced) /\ Commands[7] = WriteLabel(0)
        /\ Commands[8] = Flip /\ Commands[9] = WaitFlip /\ Commands[10] = Reference(2)
        /\ Commands[11] = Jmp(BranchToSelf) /\ Commands[12] = Nop
        /\ Commands[13] = Jmp(SyncPoint1) /\ Commands[14] = Jmp(Start)
        /\ Commands[15] = Jmp(SyncPoint2) /\ Commands[16] = Jmp(Start)
    BY DEF Commands
  <1>3. /\ Draw(TestedMask) \in CommandsOK
        /\ Nop \in CommandsOK
        /\ Flip \in CommandsOK /\ Flip.op = "flip"
        /\ WaitFlip \in CommandsOK /\ WaitFlip.op = "wait_flip"
        /\ Reference(2) \in CommandsOK /\ Reference(2).op = "ref"
    BY DEF CommandsOK, Draw, Nop, Flip, WaitFlip, Reference, Cmd
  <1>4. \A v \in {0, Fenced} : WriteLabel(v) \in CommandsOK /\ WriteLabel(v).op = "label"
    <2>1. Word(64) \in Words /\ SwapBytes(0) = 0
      BY DEF Word, Words, SwapBytes
    <2> QED BY <2>1 DEF CommandsOK, WriteLabel, BackEndRelease, Cmd
  <1>5. WaitLabel(Fenced) \in CommandsOK /\ WaitLabel(Fenced).op = "wait_label"
    <2>1. Word(64) \in Words
      BY DEF Word, Words
    <2> QED BY <2>1 DEF CommandsOK, WaitLabel, Acquire, Cmd
  <1>6. \A o \in 2..17 : Recorded[o] \in CommandsOK
    <2>1. Jmp(BranchToSelf) \in CommandsOK /\ Jmp(SyncPoint1) \in CommandsOK
          /\ Jmp(SyncPoint2) \in CommandsOK /\ Jmp(Start) \in CommandsOK
      BY JumpIsCommand, Layout
    <2> QED BY <1>1, <1>2, <1>3, <1>4, <1>5, <2>1
  <1>7. \A o \in 3..10 : Recorded[o].op \in Simple
    BY <1>1, <1>2, <1>3, <1>4, <1>5 DEF Simple
  <1>8. Recorded[11].op = "ref"
    BY <1>1, <1>2, <1>3
  <1> QED BY <1>1, <1>2, <1>6, <1>7, <1>8, Layout DEF Between

\* The front end reads the command at get; no graphics error happens.
LEMMA FrontEndShape ==
  ASSUME TypeOK, FrontEnd
  PROVE  /\ get # put /\ io[get] \in CommandsOK
         /\ UNCHANGED <<io, put, link, halted, label, frame>>
         /\ get' = IF io[get].op = "jmp" THEN io[get].arg ELSE get + 1
         /\ io[get].op = "ref" => pipe = <<>>
         /\ IF io[get].op \in {"draw", "label", "flip"}
            THEN pipe' = Append(pipe, io[get]) /\ Len(pipe) < PipeDepth
            ELSE pipe' = pipe
         /\ ref' \in {0, 2} /\ flip' \in {"done", "released", "queued"}
  <1>1. /\ io[get] \in CommandsOK
        /\ io[get].op \in Simple \cup {"nop", "jmp", "draw", "ref"}
        /\ io[get].op = "ref" => io[get].arg = 2
        /\ ref \in {0, 2} /\ flip \in {"done", "released", "queued"}
    BY CommandShape DEF TypeOK
  <1> USE <1>1 DEF Reads, Arg, Simple
  <1>2. CASE ReadNop BY <1>2 DEF ReadNop
  <1>3. CASE ReadJmp BY <1>3 DEF ReadJmp
  <1>4. CASE ReadReference BY <1>4 DEF ReadReference
  <1>5. CASE ReadWaitLabel BY <1>5 DEF ReadWaitLabel
  <1>6. CASE ReadWaitFlip BY <1>6 DEF ReadWaitFlip
  <1>7. CASE ReadMethod BY <1>7 DEF ReadMethod, Methods
  <1>8. ~ReadCall /\ ~ReadReturn /\ ~ReadRelease /\ ~ReadWaitForIdle /\ ~GraphicsError
    BY DEF ReadCall, ReadReturn, ReadRelease, ReadWaitForIdle, GraphicsError
  <1> QED BY <1>2, <1>3, <1>4, <1>5, <1>6, <1>7, <1>8 DEF FrontEnd

\* The engine takes one method from the pipe.
LEMMA EngineShape ==
  ASSUME TypeOK, Engine
  PROVE  /\ pipe # <<>> /\ pipe' = Tail(pipe) /\ Head(pipe) \in CommandsOK
         /\ UNCHANGED <<io, put, get, link, halted, ref>>
         /\ label' \in [Words -> {Untouched, 0, Fenced}]
         /\ flip' \in {"done", "released", "queued"}
         /\ frame' = IF Head(pipe).op = "draw" /\ Len(frame) < FrameDepth
                     THEN Append(frame, Head(pipe).arg) ELSE frame
  <1>1. /\ label \in [Words -> {Untouched, 0, Fenced}]
        /\ flip \in {"done", "released", "queued"}
        /\ pipe \in Seq(CommandsOK)
    BY DEF TypeOK
  <1>2. pipe # <<>> /\ pipe' = Tail(pipe) /\ Head(pipe) \in CommandsOK
    BY <1>1 DEF Engine, ExecuteDraw, ExecuteBadDraw, ExecuteWriteLabel, ExecuteFlip, Executes
  <1>3. /\ Head(pipe).op \in Simple \cup {"nop", "jmp", "draw", "ref"}
        /\ Head(pipe).op = "label" => Head(pipe).arg.value \in {0, SwapBytes(Fenced)}
    BY <1>2, CommandShape
  <1>4. CASE ExecuteDraw
    BY <1>1, <1>2, <1>4 DEF ExecuteDraw, Executes
  <1>5. CASE ExecuteWriteLabel
    <2>1. Head(pipe).op = "label" /\ Released(Head(pipe).arg, SwapBytes(Head(pipe).arg.value))
      BY <1>3, <1>5 DEF ExecuteWriteLabel, Executes, Simple
    <2>2. SwapBytes(0) = 0 /\ SwapBytes(SwapBytes(Fenced)) = Fenced
      BY DEF SwapBytes, Fenced
    <2>3. label' \in [Words -> {Untouched, 0, Fenced}]
      BY <1>1, <1>3, <2>1, <2>2 DEF Released
    <2> QED BY <1>1, <1>2, <1>5, <2>1, <2>3 DEF ExecuteWriteLabel, Executes
  <1>6. CASE ExecuteFlip
    BY <1>1, <1>2, <1>6 DEF ExecuteFlip, Executes
  <1>7. ~ExecuteBadDraw
    BY <1>3 DEF ExecuteBadDraw, Executes, Simple
  <1> QED BY <1>4, <1>5, <1>6, <1>7 DEF Engine

-----------------------------------------------------------------------------
(* Every step keeps the invariant. *)

RsxOK == /\ io \in [Offsets -> CommandsOK]
         /\ put \in Offsets /\ get \in Offsets
         /\ link = NoLink /\ halted = FALSE /\ ref \in {0, 2}
         /\ label \in [Words -> {Untouched, 0, Fenced}]
         /\ pipe \in Seq({c \in CommandsOK : c.op \in Methods})
         /\ Len(pipe) <= PipeDepth
         /\ frame \in Seq(Masks)
         /\ flip \in {"done", "released", "queued"}

MainOK == /\ pc \in {"wait_for_fifo", "jump", "record", "annul", "flush", "wait", "finished"}
          /\ it \in 0..Iterations /\ bit \in 0..Bits
          /\ DOMAIN stores \subseteq Offsets
          /\ \A o \in DOMAIN stores : stores[o] \in CommandsOK
          /\ clearing \in BOOLEAN
          /\ Len(printed) = it
          /\ \A i \in 1..it : printed[i].mask \in Masks

LEMMA TypeParts == /\ TypeOK <=> RsxOK /\ MainOK
                   /\ TypeOK' <=> RsxOK' /\ MainOK'
  BY DEF TypeOK, RsxOK, MainOK

\* While the iteration is the same, so is what is recorded.
LEMMA SameIteration ==
  ASSUME it' = it, bit' = bit
  PROVE  /\ TestedMask' = TestedMask /\ Recorded' = Recorded
         /\ BranchToSelf' = BranchToSelf /\ NotBranchToSelf' = NotBranchToSelf
  BY DEF TestedMask, Recorded, Commands, BranchToSelf, NotBranchToSelf

LEMMA MainUnchanged ==
  ASSUME IInv, UNCHANGED <<main, memory>> PROVE MainOK' /\ CountInv'
  BY TypeParts DEF IInv, MainOK, CountInv, main, memory

LEMMA MaskTested == ASSUME IInv, pc # "finished" PROVE TestedMask \in Masks
  <1>1. it \in Nat /\ it < Iterations /\ bit = it % (Bits + 1)
    <2>1. it \in 0..Iterations
      BY TypeParts DEF IInv, MainOK
    <2>2. it < Iterations /\ bit = it % (Bits + 1)
      BY DEF IInv, CountInv
    <2> QED BY <2>1, <2>2, IterationsNat
  <1>2. [valid |-> it \div (Bits + 1), bit |-> it % (Bits + 1)] \in Masks
    BY <1>1, MaskIsOne
  <1> QED BY <1>1, <1>2 DEF TestedMask

LEMMA TailNoDraw ==
  ASSUME NEW C, NEW p \in Seq(C), p # <<>>, NoDraw(p) PROVE NoDraw(Tail(p))
  BY DEF NoDraw

LEMMA FrontEndStep ==
  ASSUME IInv, FrontEnd, UNCHANGED <<main, memory>> PROVE IInv'
  <1>1. /\ get # put /\ io[get] \in CommandsOK
        /\ UNCHANGED <<io, put, link, halted, label, frame>>
        /\ get' = IF io[get].op = "jmp" THEN io[get].arg ELSE get + 1
        /\ io[get].op = "ref" => pipe = <<>>
        /\ IF io[get].op \in {"draw", "label", "flip"}
           THEN pipe' = Append(pipe, io[get]) /\ Len(pipe) < PipeDepth
           ELSE pipe' = pipe
        /\ ref' \in {0, 2} /\ flip' \in {"done", "released", "queued"}
    BY FrontEndShape DEF IInv
  <1>2. UNCHANGED <<pc, it, bit, printed, stores, clearing>>
    BY DEF main, memory
  <1>3. /\ TestedMask' = TestedMask /\ Recorded' = Recorded
        /\ BranchToSelf' = BranchToSelf /\ NotBranchToSelf' = NotBranchToSelf
    BY <1>2, SameIteration
  <1>4. MainOK' /\ CountInv' /\ RsxOK /\ MainOK
    BY MainUnchanged, TypeParts DEF IInv
  <1>5. MemInv'
    BY <1>1, <1>2, <1>3 DEF IInv, MemInv, WillBe
  <1>6. CASE pc \in Booting
    <2>1. /\ get = 0 /\ put = Boot /\ io[get] = Nop /\ pipe = <<>>
      BY <1>1, <1>6, Layout DEF IInv, BootInv
    <2>2. get' = Boot /\ pipe' = pipe
      BY <1>1, <2>1, Layout DEF Nop, Cmd
    <2>3. RsxOK'
      BY <1>1, <1>4, <2>1, <2>2, Layout DEF RsxOK
    <2>4. BootInv'
      BY <1>1, <1>2, <1>6, <2>2 DEF IInv, BootInv
    <2> QED BY <1>2, <1>4, <1>5, <1>6, <2>3, <2>4, TypeParts
            DEF IInv, ParkInv, DrawInv, Booting, Recording, Running
  <1>7. CASE pc \in Recording \cup {"finished"}
    <2>1. it > 0 /\ put = End /\ get = NotBranchToSelf /\ io[get] = Jmp(get)
      BY <1>1, <1>7 DEF IInv, ParkInv, Parked
    <2>2. get' = get /\ pipe' = pipe
      BY <1>1, <2>1 DEF Jmp, Cmd
    <2>3. RsxOK'
      BY <1>1, <1>4, <2>2 DEF RsxOK
    <2>4. ParkInv'
      BY <1>1, <1>2, <1>3, <1>7, <2>1, <2>2 DEF IInv, ParkInv, Parked
    <2> QED BY <1>2, <1>4, <1>5, <1>7, <2>3, <2>4, TypeParts
            DEF IInv, BootInv, DrawInv, Booting, Recording, Running
  <1>8. CASE pc \in Running
    <2> DEFINE m == TestedMask
    <2>1. /\ m \in Masks /\ put = End
          /\ get \in Before \cup Between \cup After
          /\ get \in Before => pipe = <<>> /\ frame = <<>>
          /\ get \in Between => OneDraw
          /\ get \in After => pipe = <<>> /\ frame = <<TestedMask>>
          /\ io[Boot] = Jmp(Start)
          /\ \A o \in Start..(End - 1) : io[o] = IF o = NotBranchToSelf THEN Nop ELSE Recorded[o]
      <3>1. ~(pc = "flush" /\ it = 0)
        BY <1>1 DEF IInv, DrawInv, Running
      <3>2. stores = <<>>
        BY <1>8 DEF IInv, MemInv, Running, Recording
      <3>3. io[Boot] = Jmp(Start)
        BY <1>8, <3>2 DEF IInv, MemInv, WillBe, Running, Booting
      <3> QED BY <1>8, <3>1, <3>3, MaskTested DEF IInv, DrawInv, MemInv, Running
    <2>2. /\ Recorded[Start] = Draw(TestedMask)
          /\ Recorded[BranchSync - 1].op = "ref"
          /\ \A o \in Between \ {BranchSync - 1} : Recorded[o].op \in Simple
          /\ Recorded[BranchSync] = Jmp(BranchToSelf)
          /\ \A o \in {SyncPoint1, SyncPoint2} : Recorded[o] = Jmp(o) /\ Recorded[o + 1] = Jmp(Start)
      BY <2>1, RecordedShape
    <2>3. BranchToSelf # NotBranchToSelf
      BY <1>4, Turns, IterationsNat DEF MainOK
    <2>4. /\ get' \in Before \cup Between \cup After
          /\ get' \in Before => pipe' = <<>> /\ frame = <<>>
          /\ get' \in Between => OneDraw'
          /\ get' \in After => pipe' = <<>> /\ frame = <<TestedMask>>
      <3>1. CASE get = Boot \/ get = NotBranchToSelf + 1
        <4>1. io[get] = Jmp(Start)
          BY <2>1, <2>2, <3>1, Layout
        <4>2. get' = Start /\ pipe' = pipe
          BY <1>1, <4>1 DEF Jmp, Cmd
        <4> QED BY <2>1, <3>1, <4>2, Layout DEF Before, Between, After
      <3>2. CASE get = NotBranchToSelf
        <4>1. io[get] = Nop
          BY <2>1, <3>2, Layout
        <4>2. get' = NotBranchToSelf + 1 /\ pipe' = pipe
          BY <1>1, <3>2, <4>1 DEF Nop, Cmd
        <4> QED BY <2>1, <3>2, <4>2, <2>3, Layout DEF Before, Between, After
      <3>3. CASE get = Start
        <4>1. io[get] = Draw(TestedMask)
          BY <2>1, <2>2, <3>3, Layout
        <4>2. get' = Start + 1 /\ pipe' = Append(pipe, Draw(TestedMask))
          BY <1>1, <3>3, <4>1 DEF Draw, Cmd
        <4>3. pipe = <<>> /\ frame = <<>>
          BY <2>1, <3>3 DEF Before
        <4>4. pipe' = <<Draw(TestedMask)>>
          BY <4>2, <4>3
        <4>5. OneDraw'
          BY <1>1, <1>3, <4>3, <4>4 DEF OneDraw, NoDraw
        <4> QED BY <4>2, <4>5, <2>3, Layout DEF Before, Between, After
      <3>4. CASE get \in Between \ {BranchSync - 1}
        <4>1. io[get] = Recorded[get] /\ io[get].op \in Simple
          BY <2>1, <2>2, <3>4, Layout DEF Between
        <4>2. get' = get + 1 /\ (pipe' = pipe \/ pipe' = Append(pipe, io[get]))
          BY <1>1, <4>1 DEF Simple
        <4>3. OneDraw'
          <5>1. OneDraw
            BY <2>1, <3>4
          <5>2. pipe \in Seq(CommandsOK) /\ io[get].op # "draw"
            BY <1>4, <4>1 DEF RsxOK, Simple
          <5>3. CASE pipe' = pipe
            BY <1>1, <1>3, <5>1, <5>3 DEF OneDraw
          <5>4. CASE pipe' = Append(pipe, io[get])
            <6>1. \A p \in Seq(CommandsOK) : NoDraw(p) => NoDraw(Append(p, io[get]))
              BY <1>1, <5>2 DEF NoDraw
            <6>2. pipe # <<>> => /\ Head(pipe') = Head(pipe) /\ pipe' # <<>>
                                 /\ Tail(pipe') = Append(Tail(pipe), io[get])
                                 /\ Tail(pipe) \in Seq(CommandsOK)
              BY <1>1, <5>2, <5>4
            <6> QED BY <1>1, <1>3, <5>1, <5>2, <5>4, <6>1, <6>2 DEF OneDraw
          <5> QED BY <4>2, <5>3, <5>4
        <4> QED BY <3>4, <4>2, <4>3, <2>3, Layout DEF Before, Between, After
      <3>5. CASE get = BranchSync - 1
        <4>1. io[get].op = "ref"
          BY <2>1, <2>2, <3>5, Layout
        <4>2. get' = BranchSync /\ pipe = <<>> /\ pipe' = pipe
          BY <1>1, <3>5, <4>1, Layout
        <4>3. frame = <<TestedMask>>
          BY <2>1, <3>5, <4>2, Layout DEF OneDraw, Between
        <4> QED BY <4>2, <4>3, <2>3, Layout DEF Before, Between, After
      <3>6. CASE get \in After
        <4>1. io[get] = Jmp(BranchToSelf)
          BY <2>1, <2>2, <2>3, <3>6, Layout DEF After
        <4>2. get' = BranchToSelf /\ pipe' = pipe
          BY <1>1, <4>1 DEF Jmp, Cmd
        <4> QED BY <2>1, <2>3, <3>6, <4>2, Layout DEF Before, Between, After
      <3> QED BY <2>1, <3>1, <3>2, <3>3, <3>4, <3>5, <3>6 DEF Before
    <2>5. DrawInv'
      <3>1. ~(pc = "flush" /\ it = 0)
        BY <1>1 DEF IInv, DrawInv, Running
      <3> QED BY <1>1, <1>2, <1>3, <2>1, <2>4, <3>1 DEF DrawInv, Before, After
    <2>6. RsxOK'
      <3>1. get' \in Offsets
        BY <2>4, <1>4, Layout DEF Before, Between, After
      <3>2. pipe' \in Seq({c \in CommandsOK : c.op \in Methods}) /\ Len(pipe') <= PipeDepth
        <4>1. CASE pipe' = pipe
          BY <1>4, <4>1 DEF RsxOK
        <4>2. CASE /\ io[get].op \in {"draw", "label", "flip"}
                   /\ pipe' = Append(pipe, io[get]) /\ Len(pipe) < PipeDepth
          <5>1. io[get] \in {c \in CommandsOK : c.op \in Methods}
            BY <1>1, <4>2 DEF Methods
          <5>2. /\ pipe \in Seq({c \in CommandsOK : c.op \in Methods}) /\ Len(pipe) \in Nat
                /\ PipeDepth \in Nat
            BY <1>4, WriteOutputMaskAssumption DEF RsxOK, WriteOutputMaskAssumption
          <5> HIDE DEF CommandsOK
          <5> QED BY <4>2, <5>1, <5>2
        <4> QED BY <1>1, <4>1, <4>2
      <3> QED BY <1>1, <1>4, <3>1, <3>2 DEF RsxOK
    <2> QED BY <1>2, <1>4, <1>5, <1>8, <2>5, <2>6, TypeParts
            DEF IInv, BootInv, ParkInv, Booting, Recording, Running
  <1> QED BY <1>4, <1>6, <1>7, <1>8 DEF MainOK, Booting, Recording, Running

LEMMA EngineStep ==
  ASSUME IInv, Engine, UNCHANGED <<main, memory>> PROVE IInv'
  <1>1. /\ pipe # <<>> /\ pipe' = Tail(pipe) /\ Head(pipe) \in CommandsOK
        /\ UNCHANGED <<io, put, get, link, halted, ref>>
        /\ label' \in [Words -> {Untouched, 0, Fenced}]
        /\ flip' \in {"done", "released", "queued"}
        /\ frame' = IF Head(pipe).op = "draw" /\ Len(frame) < FrameDepth
                    THEN Append(frame, Head(pipe).arg) ELSE frame
    BY EngineShape DEF IInv
  <1>2. UNCHANGED <<pc, it, bit, printed, stores, clearing>>
    BY DEF main, memory
  <1>3. /\ TestedMask' = TestedMask /\ Recorded' = Recorded
        /\ BranchToSelf' = BranchToSelf /\ NotBranchToSelf' = NotBranchToSelf
    BY <1>2, SameIteration
  <1>4. MainOK' /\ CountInv' /\ RsxOK /\ MainOK
    BY MainUnchanged, TypeParts DEF IInv
  <1>5. MemInv' /\ BootInv' /\ ParkInv'
    <2>1. pc \in Running
      BY <1>1, <1>4 DEF IInv, BootInv, ParkInv, MainOK, Booting, Recording, Running
    <2>2. MemInv'
      BY <1>1, <1>2, <1>3, <2>1 DEF IInv, MemInv, WillBe, Running, Booting, Recording
    <2> QED BY <1>2, <2>1, <2>2 DEF BootInv, ParkInv, Running, Booting, Recording
  <1>6. get \in Between /\ OneDraw /\ pc \in Running
    BY <1>1, <1>4 DEF IInv, BootInv, ParkInv, DrawInv, MainOK, Booting, Recording, Running
  <1>7. OneDraw'
    <2>1. pipe \in Seq(CommandsOK) /\ Draw(TestedMask).op = "draw" /\ Draw(TestedMask).arg = TestedMask
      BY <1>4 DEF RsxOK, Draw, Cmd
    <2>2. CASE frame = <<>> /\ Head(pipe) = Draw(TestedMask) /\ NoDraw(Tail(pipe))
      <3>1. frame' = <<TestedMask>>
        BY <1>1, <2>1, <2>2 DEF FrameDepth
      <3> QED BY <1>1, <1>3, <2>2, <3>1 DEF OneDraw, NoDraw
    <2>3. CASE frame = <<TestedMask>> /\ NoDraw(pipe)
      <3>1. Head(pipe).op # "draw" /\ NoDraw(Tail(pipe))
        BY <1>1, <2>1, <2>3, TailNoDraw DEF NoDraw
      <3> QED BY <1>1, <1>3, <2>3, <3>1 DEF OneDraw, NoDraw
    <2> QED BY <1>6, <2>2, <2>3 DEF OneDraw
  <1>8. DrawInv'
    <2>1. get \notin Before \cup After
      BY <1>1, <1>6 DEF IInv, DrawInv
    <2> QED BY <1>1, <1>2, <1>3, <1>6, <1>7, <2>1 DEF IInv, DrawInv, Before, Between, After
  <1>9. RsxOK'
    <2>1. pipe' \in Seq({c \in CommandsOK : c.op \in Methods}) /\ Len(pipe') <= PipeDepth
      <3> HIDE DEF CommandsOK
      <3>1. Len(pipe') = Len(pipe) - 1 /\ Len(pipe) \in Nat
        BY <1>1, <1>4 DEF RsxOK
      <3> QED BY <1>1, <1>4, <3>1, WriteOutputMaskAssumption DEF RsxOK, WriteOutputMaskAssumption
    <2>2. frame' \in Seq(Masks)
      BY <1>1, <1>4, CommandShape DEF RsxOK
    <2> QED BY <1>1, <1>4, <2>1, <2>2 DEF RsxOK
  <1> QED BY <1>4, <1>5, <1>8, <1>9, TypeParts DEF IInv

LEMMA VBlankStep ==
  ASSUME IInv, VBlank, UNCHANGED <<main, memory>> PROVE IInv'
  <1>1. UNCHANGED <<io, put, get, link, halted, ref, label, pipe, frame>> /\ flip' = "done"
    BY DEF VBlank
  <1>2. UNCHANGED <<pc, it, bit, printed, stores, clearing>>
    BY DEF main, memory
  <1>3. /\ TestedMask' = TestedMask /\ Recorded' = Recorded
        /\ BranchToSelf' = BranchToSelf /\ NotBranchToSelf' = NotBranchToSelf
    BY <1>2, SameIteration
  <1>4. MainOK' /\ CountInv' /\ RsxOK
    BY MainUnchanged, TypeParts DEF IInv
  <1>5. RsxOK'
    BY <1>1, <1>4 DEF RsxOK
  <1>6. BootInv' /\ ParkInv'
    BY <1>1, <1>2, <1>3 DEF IInv, BootInv, ParkInv, Parked
  <1>7. MemInv'
    BY <1>1, <1>2, <1>3 DEF IInv, MemInv, WillBe
  <1>8. DrawInv'
    BY <1>1, <1>2, <1>3 DEF IInv, DrawInv, OneDraw, NoDraw, Before, After
  <1> QED BY <1>4, <1>5, <1>6, <1>7, <1>8, TypeParts DEF IInv

LEMMA StutterStep ==
  ASSUME IInv, UNCHANGED vars PROVE IInv'
  <1>1. /\ UNCHANGED <<io, put, get, link, halted, ref, label, pipe, frame, flip>>
        /\ UNCHANGED <<pc, it, bit, printed, stores, clearing>>
    BY DEF vars, rsx, main, memory
  <1>3. /\ TestedMask' = TestedMask /\ Recorded' = Recorded
        /\ BranchToSelf' = BranchToSelf /\ NotBranchToSelf' = NotBranchToSelf
    BY <1>1, SameIteration
  <1>4. MainOK' /\ CountInv' /\ RsxOK
    BY MainUnchanged, TypeParts DEF IInv, vars
  <1>5. RsxOK'
    BY <1>1, <1>4 DEF RsxOK
  <1>6. BootInv' /\ ParkInv'
    BY <1>1, <1>3 DEF IInv, BootInv, ParkInv, Parked
  <1>7. MemInv'
    BY <1>1, <1>3 DEF IInv, MemInv, WillBe
  <1>8. DrawInv'
    BY <1>1, <1>3 DEF IInv, DrawInv, OneDraw, NoDraw, Before, After
  <1> QED BY <1>4, <1>5, <1>6, <1>7, <1>8, TypeParts DEF IInv

LEMMA StoreArrivesStep == ASSUME IInv, StoreArrives PROVE IInv'
  <1>1. PICK o \in DOMAIN stores :
          /\ io' = [io EXCEPT ![o] = stores[o]]
          /\ stores' = [p \in DOMAIN stores \ {o} |-> stores[p]]
    BY DEF StoreArrives
  <1>2. UNCHANGED <<put, get, link, halted, ref, label, pipe, frame, flip, pc, it, bit, printed, clearing>>
    BY DEF StoreArrives, main
  <1>3. /\ TestedMask' = TestedMask /\ Recorded' = Recorded
        /\ BranchToSelf' = BranchToSelf /\ NotBranchToSelf' = NotBranchToSelf
    BY <1>2, SameIteration
  <1>4. RsxOK /\ MainOK
    BY TypeParts DEF IInv
  <1>5. o \in Offsets /\ stores[o] \in CommandsOK
    BY <1>4 DEF MainOK
  <1>6. pc \in Recording
    BY <1>1 DEF IInv, MemInv
  <1>7. RsxOK'
    BY <1>1, <1>2, <1>4, <1>5 DEF RsxOK
  <1>8. MainOK'
    BY <1>1, <1>2, <1>4 DEF MainOK
  <1>9. CountInv'
    BY <1>2 DEF IInv, CountInv
  <1>10. MemInv'
    <2>1. \A p \in Offsets : \A c : WillBe(p, c) => WillBe(p, c)'
      BY <1>1, <1>4 DEF WillBe, RsxOK
    <2>2. \A p \in Start..(End - 1) : p \in Offsets
      BY Layout
    <2> QED BY <1>2, <1>3, <1>6, <2>1, <2>2, Layout
            DEF IInv, MemInv, Recording, Running, Booting
  <1>11. ParkInv'
    <2>1. get # put => get # o /\ io'[get] = io[get]
      BY <1>1, <1>4, <1>6 DEF IInv, ParkInv, RsxOK
    <2>2. NotBranchToSelf # End
      BY Layout
    <2> QED BY <1>1, <1>2, <1>3, <1>6, <2>1, <2>2 DEF IInv, ParkInv, Parked
  <1>12. BootInv' /\ DrawInv'
    BY <1>2, <1>6 DEF BootInv, DrawInv, Recording, Running, Booting
  <1> QED BY <1>7, <1>8, <1>9, <1>10, <1>11, <1>12, TypeParts DEF IInv

LEMMA ClearArrivesStep == ASSUME IInv, ClearArrives PROVE IInv'
  <1>1. /\ clearing /\ clearing' = FALSE /\ frame' = <<>>
        /\ UNCHANGED <<io, put, get, link, halted, ref, label, pipe, flip, pc, it, bit, printed, stores>>
    BY DEF ClearArrives, main
  <1>2. /\ TestedMask' = TestedMask /\ Recorded' = Recorded
        /\ BranchToSelf' = BranchToSelf /\ NotBranchToSelf' = NotBranchToSelf
    BY <1>1, SameIteration
  <1>3. RsxOK /\ MainOK
    BY TypeParts DEF IInv
  <1>4. pc \in Recording
    BY <1>1 DEF IInv, MemInv
  <1>5. RsxOK' /\ MainOK'
    <2>1. frame' \in Seq(Masks)
      BY <1>1
    <2>2. RsxOK'
      BY <1>1, <1>3, <2>1 DEF RsxOK
    <2>3. MainOK'
      BY <1>1, <1>3 DEF MainOK
    <2> QED BY <2>2, <2>3
  <1>6. CountInv' /\ ParkInv'
    BY <1>1, <1>2 DEF IInv, CountInv, ParkInv, Parked
  <1>7. MemInv'
    BY <1>1, <1>2, <1>4 DEF IInv, MemInv, WillBe, Running, Recording, Booting
  <1>8. BootInv' /\ DrawInv'
    BY <1>1, <1>4 DEF BootInv, DrawInv, Recording, Running, Booting
  <1> QED BY <1>5, <1>6, <1>7, <1>8, TypeParts DEF IInv

LEMMA WaitForFifoStep == ASSUME IInv, WaitForFifo PROVE IInv'
  <1>1. /\ pc = "wait_for_fifo" /\ put = get /\ pc' = "jump"
        /\ UNCHANGED <<io, put, get, link, halted, ref, label, pipe, frame, flip, it, bit, printed, stores, clearing>>
    BY DEF WaitForFifo, rsx, memory
  <1>2. RsxOK' /\ MainOK'
    BY <1>1, TypeParts DEF IInv, RsxOK, MainOK
  <1>3. BootInv' /\ CountInv'
    BY <1>1 DEF IInv, BootInv, CountInv, Booting
  <1>4. MemInv' /\ ParkInv' /\ DrawInv'
    BY <1>1 DEF IInv, MemInv, ParkInv, DrawInv, Booting, Recording, Running
  <1> QED BY <1>2, <1>3, <1>4, TypeParts DEF IInv

\* The jump is on its way to where the RSX waits, which reads nothing there.
LEMMA PlaceJumpStep == ASSUME IInv, PlaceJump PROVE IInv'
  <1>1. /\ pc = "jump" /\ pc' = "record" /\ Store([o \in {get} |-> Jmp(Start)])
        /\ UNCHANGED <<io, put, get, link, halted, ref, label, pipe, frame, flip, it, bit, printed, clearing>>
    BY DEF PlaceJump, rsx
  <1>2. RsxOK /\ MainOK
    BY TypeParts DEF IInv
  <1>3. /\ it = 0 /\ put = Boot /\ get = Boot /\ pipe = <<>> /\ frame = <<>> /\ ~clearing
        /\ io[Boot] = Nop
    BY <1>1, Layout DEF IInv, BootInv, Booting
  <1>4. Nop # Jmp(Start)
    BY DEF Nop, Jmp, Cmd
  <1>5. stores' = [o \in {Boot} |-> Jmp(Start)]
    BY <1>1, <1>3, <1>4 DEF Store, Effective
  <1>6. RsxOK' /\ MainOK'
    <2>1. Jmp(Start) \in CommandsOK /\ Boot \in Offsets
      BY JumpIsCommand, Layout
    <2> QED BY <1>1, <1>2, <1>5, <2>1 DEF RsxOK, MainOK
  <1>7. CountInv' /\ BootInv' /\ DrawInv'
    BY <1>1 DEF IInv, CountInv, BootInv, DrawInv, Booting, Running
  <1>8. MemInv'
    BY <1>1, <1>5 DEF MemInv, WillBe, Booting, Recording, Running
  <1>9. ParkInv'
    BY <1>1, <1>3 DEF ParkInv, Parked
  <1> QED BY <1>6, <1>7, <1>8, <1>9, TypeParts DEF IInv

LEMMA RecordStep == ASSUME IInv, Record PROVE IInv'
  <1>1. /\ pc = "record" /\ pc' = "annul" /\ clearing' = TRUE
        /\ stores' = [o \in Effective(Recorded) \cup DOMAIN stores |->
                        IF o \in DOMAIN Recorded THEN Recorded[o] ELSE stores[o]]
        /\ UNCHANGED <<io, put, get, link, halted, ref, label, pipe, frame, flip, it, bit, printed>>
    BY DEF Record, rsx
  <1>2. RsxOK /\ MainOK
    BY TypeParts DEF IInv
  <1>3. /\ TestedMask' = TestedMask /\ Recorded' = Recorded
        /\ BranchToSelf' = BranchToSelf /\ NotBranchToSelf' = NotBranchToSelf
    BY <1>1, SameIteration
  <1>4. /\ DOMAIN Recorded = Start..(End - 1)
        /\ \A o \in Start..(End - 1) : Recorded[o] \in CommandsOK
        /\ \A o \in {SyncPoint1, SyncPoint2} : Recorded[o] = Jmp(o)
    BY <1>1, MaskTested, RecordedShape
  <1>5. RsxOK' /\ MainOK'
    <2>1. Start..(End - 1) \subseteq Offsets
      BY Layout
    <2>2. DOMAIN stores' = Effective(Recorded) \cup DOMAIN stores
      BY <1>1
    <2>3. DOMAIN stores' \subseteq Offsets
      BY <1>2, <1>4, <2>1, <2>2 DEF Effective, MainOK
    <2>4. \A o \in DOMAIN stores' : stores'[o] \in CommandsOK
      BY <1>1, <1>2, <1>4, <2>2 DEF Effective, MainOK
    <2>5. RsxOK'
      BY <1>1, <1>2 DEF RsxOK
    <2> QED BY <1>1, <1>2, <2>3, <2>4, <2>5 DEF MainOK
  <1>6. MemInv'
    <2>1. Boot \notin Start..(End - 1)
      BY Layout
    <2>2. WillBe(Boot, Jmp(Start))'
      BY <1>1, <1>4, <2>1 DEF IInv, MemInv, WillBe, Booting, Effective
    <2>3. \A o \in Start..(End - 1) : WillBe(o, Recorded[o])'
      BY <1>1, <1>3, <1>4 DEF WillBe, Effective
    <2> QED BY <1>1, <1>3, <2>2, <2>3 DEF MemInv, Booting, Recording, Running
  <1>7. ParkInv'
    <2>1. Parked /\ pipe = <<>> /\ (get # put => get \notin DOMAIN stores)
      BY <1>1 DEF IInv, ParkInv, Recording
    <2>2. get # put => get \notin Effective(Recorded)
      <3>1. CASE it > 0 /\ get = NotBranchToSelf /\ io[get] = Jmp(get)
        BY <1>4, <3>1, Layout DEF Effective
      <3> QED BY <2>1, <3>1 DEF Parked
    <2> QED BY <1>1, <1>3, <2>1, <2>2 DEF ParkInv, Parked
  <1>8. CountInv' /\ BootInv' /\ DrawInv'
    BY <1>1 DEF IInv, CountInv, BootInv, DrawInv, Booting, Running
  <1> QED BY <1>5, <1>6, <1>7, <1>8, TypeParts DEF IInv

\* The RSX is let out of the last stop when all else has arrived.
LEMMA AnnulStep == ASSUME IInv, Annul PROVE IInv'
  <1>1. /\ pc = "annul" /\ pc' = "flush" /\ stores = <<>> /\ ~clearing
        /\ io' = [io EXCEPT ![NotBranchToSelf] = Nop]
        /\ UNCHANGED <<put, get, link, halted, ref, label, pipe, frame, flip, it, bit, printed, stores, clearing>>
    BY DEF Annul, NoStores, memory
  <1>2. RsxOK /\ MainOK
    BY TypeParts DEF IInv
  <1>3. /\ TestedMask' = TestedMask /\ Recorded' = Recorded
        /\ BranchToSelf' = BranchToSelf /\ NotBranchToSelf' = NotBranchToSelf
    BY <1>1, SameIteration
  <1>4. /\ io[Boot] = Jmp(Start) /\ \A o \in Start..(End - 1) : io[o] = Recorded[o]
        /\ frame = <<>>
    BY <1>1 DEF IInv, MemInv, WillBe, Booting
  <1>5. RsxOK' /\ MainOK'
    <2>1. Nop \in CommandsOK
      BY DEF CommandsOK, Nop, Cmd
    <2> QED BY <1>1, <1>2, <2>1 DEF RsxOK, MainOK
  <1>6. MemInv'
    <2>1. Boot # NotBranchToSelf /\ Boot \in Offsets /\ \A o \in Start..(End - 1) : o \in Offsets
      BY Layout
    <2>2. io'[Boot] = Jmp(Start)
      BY <1>1, <1>2, <1>4, <2>1 DEF RsxOK
    <2>3. \A o \in Start..(End - 1) : io'[o] = IF o = NotBranchToSelf THEN Nop ELSE Recorded[o]
      BY <1>1, <1>2, <1>4, <2>1 DEF RsxOK
    <2> QED BY <1>1, <1>3, <2>2, <2>3 DEF MemInv, WillBe, Recording, Running, Booting
  <1>7. DrawInv'
    <2>1. Parked /\ pipe = <<>>
      BY <1>1 DEF IInv, ParkInv, Recording
    <2>2. get \in {Boot, NotBranchToSelf} /\ (IF it = 0 THEN get = Boot /\ put = Boot ELSE put = End)
      BY <1>2, <2>1, IterationsNat DEF Parked, MainOK
    <2>3. Before \cap (Between \cup After) = {}
      <3>1. BranchToSelf # NotBranchToSelf
        BY <1>2, Turns, IterationsNat DEF MainOK
      <3> QED BY <3>1, Layout DEF Before, Between, After
    <2>4. get \in Before
      BY <2>2 DEF Before
    <2> QED BY <1>1, <1>3, <1>4, <2>1, <2>2, <2>3, <2>4 DEF DrawInv, Before, After
  <1>8. CountInv' /\ BootInv' /\ ParkInv'
    BY <1>1 DEF IInv, CountInv, BootInv, ParkInv, Booting, Recording
  <1> QED BY <1>5, <1>6, <1>7, <1>8, TypeParts DEF IInv

LEMMA FlushStep == ASSUME IInv, Flush PROVE IInv'
  <1>1. /\ pc = "flush" /\ pc' = "wait" /\ put' = End
        /\ UNCHANGED <<io, get, link, halted, ref, label, pipe, frame, flip, it, bit, printed, stores, clearing>>
    BY DEF Flush, memory
  <1>2. RsxOK /\ MainOK
    BY TypeParts DEF IInv
  <1>3. /\ TestedMask' = TestedMask /\ Recorded' = Recorded
        /\ BranchToSelf' = BranchToSelf /\ NotBranchToSelf' = NotBranchToSelf
    BY <1>1, SameIteration
  <1>4. RsxOK' /\ MainOK'
    BY <1>1, <1>2, Layout DEF RsxOK, MainOK
  <1>5. MemInv'
    BY <1>1, <1>3 DEF IInv, MemInv, WillBe, Recording, Running, Booting
  <1>6. DrawInv'
    BY <1>1, <1>3 DEF IInv, DrawInv, OneDraw, NoDraw, Running, Before, After
  <1>7. CountInv' /\ BootInv' /\ ParkInv'
    BY <1>1 DEF IInv, CountInv, BootInv, ParkInv, Booting, Recording
  <1> QED BY <1>4, <1>5, <1>6, <1>7, TypeParts DEF IInv

\* What is printed is the one draw; the RSX stays in the stop it has reached.
LEMMA PrintSampleStep == ASSUME IInv, PrintSample PROVE IInv'
  <1>1. /\ pc = "wait" /\ get = BranchToSelf
        /\ printed' = Append(printed, [mask |-> TestedMask, frame |-> frame])
        /\ it' = it + 1 /\ bit' = (bit + 1) % (Bits + 1)
        /\ pc' = IF it + 1 < Iterations THEN "record" ELSE "finished"
        /\ UNCHANGED <<io, put, get, link, halted, ref, label, pipe, frame, flip, stores, clearing>>
    BY DEF PrintSample, rsx, memory
  <1>2. RsxOK /\ MainOK
    BY TypeParts DEF IInv
  <1>3. /\ it \in Nat /\ it < Iterations /\ Iterations \in Nat /\ bit = it % (Bits + 1)
        /\ TestedMask \in Masks
        /\ TestedMask = [valid |-> it \div (Bits + 1), bit |-> it % (Bits + 1)]
    <2>1. it < Iterations /\ bit = it % (Bits + 1)
      BY <1>1 DEF IInv, CountInv
    <2> QED BY <1>1, <1>2, <2>1, IterationsNat, MaskTested DEF MainOK, TestedMask
  <1>4. /\ frame = <<TestedMask>> /\ pipe = <<>> /\ put = End /\ stores = <<>> /\ ~clearing
        /\ io[Boot] = Jmp(Start)
        /\ \A o \in Start..(End - 1) : io[o] = IF o = NotBranchToSelf THEN Nop ELSE Recorded[o]
    <2>1. get \in After
      BY <1>1 DEF After
    <2> QED BY <1>1, <2>1 DEF IInv, DrawInv, MemInv, WillBe, Running, Recording, Booting
  <1>5. CountInv'
    <2>1. bit' = (it + 1) % (Bits + 1)
      BY <1>1, <1>3, ShiftFollows, IterationsNat
    <2>2. /\ printed \in Seq([mask : Masks, frame : Seq(Masks)]) /\ Len(printed) = it
          /\ \A i \in 1..it : /\ printed[i].frame = <<printed[i].mask>>
                              /\ printed[i].mask = [valid |-> (i - 1) \div (Bits + 1),
                                                    bit |-> (i - 1) % (Bits + 1)]
      BY <1>2 DEF IInv, CountInv, MainOK
    <2>3. [mask |-> TestedMask, frame |-> frame] \in [mask : Masks, frame : Seq(Masks)]
      BY <1>2, <1>3 DEF RsxOK
    <2>4. /\ printed' \in Seq([mask : Masks, frame : Seq(Masks)])
          /\ \A i \in 1..it : printed'[i] = printed[i]
          /\ printed'[it + 1] = [mask |-> TestedMask, frame |-> frame]
      BY <1>1, <1>3, <2>2, <2>3
    <2>5. (it + 1) - 1 = it
      BY <1>3
    <2>6. \A i \in 1..(it + 1) : /\ printed'[i].frame = <<printed'[i].mask>>
                                 /\ printed'[i].mask = [valid |-> (i - 1) \div (Bits + 1),
                                                        bit |-> (i - 1) % (Bits + 1)]
      <3>1. SUFFICES ASSUME NEW i \in 1..(it + 1)
                     PROVE  /\ printed'[i].frame = <<printed'[i].mask>>
                            /\ printed'[i].mask = [valid |-> (i - 1) \div (Bits + 1),
                                                   bit |-> (i - 1) % (Bits + 1)]
        OBVIOUS
      <3>2. CASE i = it + 1
        BY <1>3, <1>4, <2>4, <2>5, <3>2
      <3>3. CASE i \in 1..it
        BY <2>2, <2>4, <3>3
      <3> QED BY <1>3, <3>1, <3>2, <3>3
    <2>7. IF pc' = "finished" THEN it' = Iterations ELSE it' < Iterations
      BY <1>1, <1>3
    <2> QED BY <1>1, <2>1, <2>4, <2>6, <2>7 DEF CountInv
  <1>6. RsxOK' /\ MainOK'
    <2>1. RsxOK'
      BY <1>1, <1>2 DEF RsxOK
    <2>2. Len(printed') = it' /\ it' \in 0..Iterations
      BY <1>1, <1>2, <1>3 DEF IInv, CountInv, MainOK
    <2>3. \A i \in 1..it' : printed'[i].mask \in Masks
      <3>1. printed \in Seq([mask : Masks, frame : Seq(Masks)]) /\ Len(printed) = it
        BY <1>2 DEF IInv, CountInv, MainOK
      <3>2. /\ \A i \in 1..it : printed'[i] = printed[i]
            /\ printed'[it + 1] = [mask |-> TestedMask, frame |-> frame]
        BY <1>1, <1>3, <3>1
      <3> QED BY <1>1, <1>2, <1>3, <3>2 DEF MainOK
    <2>4. bit' \in 0..Bits
      BY <1>1, <1>3, DivMod, IterationsNat, WriteOutputMaskAssumption DEF WriteOutputMaskAssumption
    <2> QED BY <1>1, <1>2, <2>1, <2>2, <2>3, <2>4 DEF MainOK
  <1>7. ParkInv' /\ MemInv'
    <2>1. NotBranchToSelf' = get /\ io[get] = Jmp(get)
      <3>1. Recorded[BranchToSelf] = Jmp(BranchToSelf) /\ BranchToSelf \in Start..(End - 1)
        BY <1>3, RecordedShape, Layout
      <3> QED BY <1>1, <1>3, <1>4, <3>1, Turns
    <2> QED BY <1>1, <1>3, <1>4, <2>1 DEF ParkInv, Parked, MemInv, WillBe, Recording, Running, Booting
  <1>8. BootInv' /\ DrawInv'
    BY <1>1 DEF BootInv, DrawInv, Booting, Running
  <1> QED BY <1>5, <1>6, <1>7, <1>8, TypeParts DEF IInv

LEMMA InitInv == Init => IInv
  <1> SUFFICES ASSUME Init PROVE IInv
    OBVIOUS
  <1>1. Nop \in CommandsOK
    BY DEF CommandsOK, Nop, Cmd
  <1>2. RsxOK
    BY <1>1, Layout, WriteOutputMaskAssumption DEF Init, RsxOK, WriteOutputMaskAssumption
  <1>3. 0 < Iterations /\ 0 % (Bits + 1) = 0
    <2>1. \A a, b \in Nat \ {0} : a * b > 0
      BY SMT
    <2>2. Bits + 1 \in Nat \ {0} /\ 0 = (Bits + 1) * 0 + 0 /\ 0 \in 0..((Bits + 1) - 1)
      BY WriteOutputMaskAssumption DEF WriteOutputMaskAssumption
    <2>3. 0 % (Bits + 1) = 0
      BY <2>2, DivModUnique
    <2> QED BY <2>1, <2>2, <2>3, WriteOutputMaskAssumption DEF Iterations, WriteOutputMaskAssumption
  <1>4. MainOK
    <2>1. it = 0 /\ bit = 0 /\ 0 \in 0..Iterations /\ 0 \in 0..Bits
      BY IterationsNat, WriteOutputMaskAssumption DEF Init, WriteOutputMaskAssumption
    <2>2. DOMAIN stores = {} /\ Len(printed) = 0
      BY DEF Init
    <2>3. pc = "wait_for_fifo" /\ clearing = FALSE
      BY DEF Init
    <2>4. clearing \in BOOLEAN
      BY <2>3
    <2>5. 1..it = {}
      BY <2>1
    <2>6. it \in 0..Iterations /\ bit \in 0..Bits /\ Len(printed) = it
      BY <2>1, <2>2
    <2> QED BY <2>2, <2>3, <2>4, <2>5, <2>6 DEF MainOK
  <1>5. CountInv
    BY <1>3 DEF Init, CountInv
  <1>6. BootInv
    BY DEF Init, BootInv
  <1>7. ParkInv /\ MemInv /\ DrawInv
    BY DEF Init, ParkInv, MemInv, DrawInv, Booting, Recording, Running
  <1> QED BY <1>2, <1>4, <1>5, <1>6, <1>7, TypeParts DEF IInv

LEMMA NextInv == IInv /\ [Next]_vars => IInv'
  <1> SUFFICES ASSUME IInv, [Next]_vars PROVE IInv'
    OBVIOUS
  <1>1. CASE Ppu
    BY <1>1, WaitForFifoStep, PlaceJumpStep, RecordStep, AnnulStep, FlushStep, PrintSampleStep DEF Ppu
  <1>2. CASE Arrive
    BY <1>2, StoreArrivesStep, ClearArrivesStep DEF Arrive
  <1>3. CASE Gpu /\ UNCHANGED <<main, memory>>
    BY <1>3, FrontEndStep, EngineStep, VBlankStep DEF Gpu
  <1>4. CASE UNCHANGED vars
    BY <1>4, StutterStep
  <1> QED BY <1>1, <1>2, <1>3, <1>4 DEF Next

LEMMA Invariance == SafeSpec => []IInv
  BY InitInv, NextInv, PTL DEF SafeSpec
-----------------------------------------------------------------------------
\* Main, the stores on their way and the RSX keep to their types: in particular
\* no graphics error stops the RSX and the pipe is never too full.
THEOREM Types == Spec => []TypeOK
  <1>1. IInv => TypeOK
    BY DEF IInv
  <1> QED BY <1>1, Invariance, PTL DEF Spec

\* Main records the next iteration over the commands of the last: the two stops
\* and the fence in store_vol keep the stores from the command the RSX is at.
THEOREM RecordsAsideOfTheRsx == Spec => []NoStoreUnderTheRsx
  <1>1. IInv => NoStoreUnderTheRsx
    <2> SUFFICES ASSUME IInv, get # put PROVE get \notin DOMAIN stores
      BY DEF NoStoreUnderTheRsx
    <2>1. CASE pc \in Recording
      BY <2>1 DEF IInv, ParkInv
    <2>2. CASE pc \notin Recording
      BY <2>2 DEF IInv, MemInv
    <2> QED BY <2>1, <2>2
  <1> QED BY <1>1, Invariance, PTL DEF Spec

\* Each line of the output shows one draw, with the mask of its own iteration, in
\* a color buffer that was cleared before.
THEOREM PrintsItsOwnMask == Spec => []PrintsOwnMask
  <1>1. IInv => PrintsOwnMask
    <2> SUFFICES ASSUME IInv, NEW i \in DOMAIN printed
                 PROVE  printed[i].frame = <<printed[i].mask>>
      BY DEF PrintsOwnMask
    <2>1. i \in 1..it
      BY TypeParts DEF IInv, CountInv, MainOK
    <2> QED BY <2>1 DEF IInv, CountInv
  <1> QED BY <1>1, Invariance, PTL DEF Spec

\* "ORis valid masks with a single reserved bit at a time": when main is at its end
\* every pair has been tested, once.
EachMask == pc = "finished" => /\ {printed[i].mask : i \in DOMAIN printed} = Masks
                               /\ Len(printed) = Iterations

\* The shift that overflows, the count of iterations and the lines agree.
THEOREM TestsEachMask == Spec => []EachMask
  <1>1. IInv => EachMask
    <2> SUFFICES ASSUME IInv, pc = "finished"
                 PROVE  {printed[i].mask : i \in DOMAIN printed} = Masks /\ Len(printed) = Iterations
      BY DEF EachMask
    <2> DEFINE maskAt(n) == [valid |-> n \div (Bits + 1), bit |-> n % (Bits + 1)]
    <2>1. /\ Len(printed) = Iterations /\ DOMAIN printed = 1..Iterations
          /\ \A i \in 1..Iterations : printed[i].mask = maskAt(i - 1)
      BY TypeParts DEF IInv, CountInv, MainOK
    <2>2. ASSUME NEW i \in 1..Iterations PROVE maskAt(i - 1) \in Masks
      <3>1. PICK n \in Nat : n = i - 1 /\ n < Iterations
        BY IterationsNat
      <3> QED BY <3>1, MaskIsOne
    <2>3. ASSUME NEW m \in Masks PROVE \E i \in 1..Iterations : m = maskAt(i - 1)
      <3>1. PICK v \in Nat, b \in 0..Bits, d \in Nat \ {0} :
              m = [valid |-> v, bit |-> b] /\ v < ValidMasks /\ d = Bits + 1
        BY IterationsNat, WriteOutputMaskAssumption DEF Masks, WriteOutputMaskAssumption
      <3>2. d * ValidMasks >= d * v + d /\ Iterations = d * ValidMasks
        BY <3>1, TimesMonotone, WriteOutputMaskAssumption DEF Iterations, WriteOutputMaskAssumption
      <3>3. PICK n \in Nat : n = d * v + b
        BY <3>1, WriteOutputMaskAssumption DEF WriteOutputMaskAssumption
      <3>4. n \div d = v /\ n % d = b
        <4>1. b \in 0..(d - 1)
          BY <3>1, WriteOutputMaskAssumption DEF WriteOutputMaskAssumption
        <4> QED BY <3>1, <3>3, <4>1, DivModUnique
      <3>5. n + 1 \in 1..Iterations /\ (n + 1) - 1 = n
        BY <3>1, <3>2, <3>3, IterationsNat, WriteOutputMaskAssumption DEF WriteOutputMaskAssumption
      <3>6. maskAt((n + 1) - 1) = m
        BY <3>1, <3>4, <3>5
      <3> QED BY <3>5, <3>6
    <2> HIDE DEF maskAt
    <2> QED BY <2>1, <2>2, <2>3
  <1> QED BY <1>1, Invariance, PTL DEF Spec

=============================================================================
