-------------------------- MODULE WriteOutputMask --------------------------
(***************************************************************************)
(* rsx_tests/write output mask: the color mask register is tried with each *)
(* of its valid values together with each single bit.  One command buffer  *)
(* serves all iterations.  The RSX ends an iteration in a jump to itself,  *)
(* at one of two places by turns; the PPU then records the next iteration  *)
(* over the last one, annuls the old stop and waits for the RSX to reach   *)
(* the other.  The PPU's plain stores may reach memory in any order; fsync *)
(* waits for all of them.  A command, however many words, has one offset.  *)
(***************************************************************************)
EXTENDS Naturals, Sequences

CONSTANTS Bits,        \* the bits of the register, 32 in the code
          ValidMasks,  \* how many valid_masks there are, 6 in the code
          PipeDepth    \* how many methods the engine can be behind

ASSUME WriteOutputMaskAssumption == /\ Bits \in Nat \ {0}
                                    /\ ValidMasks \in Nat \ {0}
                                    /\ PipeDepth \in Nat \ {0}

Fenced == 98
Untouched == 34
Words == {16 * 64}
NoLink == 0
FrameDepth == 2
\* The buffer of cellGcmInit ends at Boot, where wait_for_fifo leaves get.
Boot == 1
Start == 2
BranchSync == 12
SyncPoint1 == 14
SyncPoint2 == 16
End == 18
Offsets == 0..End

VARIABLES io, put, get, link, halted, ref, label, pipe, frame, flip   \* see Rsx
INSTANCE Rsx

VARIABLES pc,        \* where main is
          it,        \* the iteration
          bit,       \* invalid_mask: 0, or one more than the number of its bit
          stores,    \* plain stores to io memory on their way
          clearing,  \* is the clearing of the color buffer on its way
          printed    \* the masks tested, and what the color buffer then was

rsx == <<io, put, get, link, halted, ref, label, pipe, frame, flip>>
main == <<pc, it, bit, printed>>
memory == <<stores, clearing>>
vars == <<rsx, main, memory>>

Iterations == (Bits + 1) * ValidMasks
TestedMask == [valid |-> it \div (Bits + 1), bit |-> bit]

Init == /\ io = [o \in Offsets |-> Nop]
        /\ get = 0 /\ put = Boot
        /\ link = NoLink /\ halted = FALSE
        /\ ref = 0 /\ label = [w \in Words |-> Untouched] /\ pipe = <<>> /\ frame = <<>> /\ flip = "done"
        /\ pc = "wait_for_fifo" /\ it = 0 /\ bit = 0
        /\ stores = <<>> /\ clearing = FALSE
        /\ printed = <<>>
-----------------------------------------------------------------------------
(* What an iteration stores.  The stop of this iteration is where the RSX  *)
(* will jump to itself, that of the last where it may be doing so now.     *)
BranchToSelf == IF it % 2 = 0 THEN SyncPoint1 ELSE SyncPoint2
NotBranchToSelf == IF it % 2 = 1 THEN SyncPoint1 ELSE SyncPoint2

Commands ==
  <<Draw(TestedMask),
    WriteLabel(Fenced), WaitLabel(Fenced), WriteLabel(0),
    WriteLabel(Fenced), WaitLabel(Fenced), WriteLabel(0),
    Flip, WaitFlip, Reference(2),
    Jmp(BranchToSelf), Nop,
    Jmp(SyncPoint1), Jmp(Start), Jmp(SyncPoint2), Jmp(Start)>>

Recorded == [o \in Start..(End - 1) |-> Commands[o - Start + 1]]

\* Stores of what is there already make no difference.
Effective(new) == {o \in DOMAIN new : new[o] # io[o]}
Store(new) == stores' = [o \in Effective(new) |-> new[o]]

NoStores == stores = <<>> /\ ~clearing
-----------------------------------------------------------------------------
(* The stores reach memory one by one. *)
StoreArrives == /\ \E o \in DOMAIN stores :
                     /\ io' = [io EXCEPT ![o] = stores[o]]
                     /\ stores' = [p \in DOMAIN stores \ {o} |-> stores[p]]
                /\ UNCHANGED <<put, get, link, halted, ref, label, pipe, frame, flip, main, clearing>>

ClearArrives == /\ clearing
                /\ clearing' = FALSE
                /\ frame' = <<>>
                /\ UNCHANGED <<io, put, get, link, halted, ref, label, pipe, flip, main, stores>>
-----------------------------------------------------------------------------
(* The PPU. *)

WaitForFifo == /\ pc = "wait_for_fifo"
               /\ put = get
               /\ pc' = "jump"
               /\ UNCHANGED <<rsx, it, bit, printed, memory>>

\* "Place a jump into io address 1mb", at get, where the RSX will look first.
PlaceJump == /\ pc = "jump"
             /\ NoStores
             /\ Store([o \in {get} |-> Jmp(Start)])
             /\ pc' = "record"
             /\ UNCHANGED <<rsx, it, bit, printed, clearing>>

\* The color buffer is cleared and the commands are recorded, plain stores all.
Record == /\ pc = "record"
          /\ stores' = [o \in Effective(Recorded) \cup DOMAIN stores |->
                          IF o \in DOMAIN Recorded THEN Recorded[o] ELSE stores[o]]
          /\ clearing' = TRUE
          /\ pc' = "annul"
          /\ UNCHANGED <<rsx, it, bit, printed>>

\* Mutant: an ordinary assignment in place of store_vol.
Annul_NoFence == /\ pc = "annul"
                 /\ io' = [io EXCEPT ![NotBranchToSelf] = Nop]
                 /\ stores' = [o \in DOMAIN stores \ {NotBranchToSelf} |-> stores[o]]
                 /\ pc' = "flush"
                 /\ UNCHANGED <<put, get, link, halted, ref, label, pipe, frame, flip,
                                it, bit, printed, clearing>>

\* Mutant: the last iteration's stop is not annulled.
Annul_Dropped == /\ pc = "annul"
                 /\ NoStores
                 /\ pc' = "flush"
                 /\ UNCHANGED <<rsx, it, bit, printed, memory>>

\* "Annul previous branch to self - freeing RSX!"
Annul == /\ pc = "annul"
         /\ NoStores
         /\ io' = [io EXCEPT ![NotBranchToSelf] = Nop]
         /\ pc' = "flush"
         /\ UNCHANGED <<put, get, link, halted, ref, label, pipe, frame, flip, it, bit, printed, memory>>

Flush == /\ pc = "flush"
         /\ NoStores
         /\ put' = End
         /\ pc' = "wait"
         /\ UNCHANGED <<io, get, link, halted, ref, label, pipe, frame, flip, it, bit, printed, memory>>

\* Mutant: one iteration too many.
PrintSample_OneMore ==
  /\ pc = "wait"
  /\ get = BranchToSelf
  /\ printed' = Append(printed, [mask |-> TestedMask, frame |-> frame])
  /\ it' = it + 1
  /\ bit' = (bit + 1) % (Bits + 1)
  /\ pc' = IF it' <= Iterations THEN "record" ELSE "finished"
  /\ UNCHANGED <<rsx, memory>>

\* "Wait for RSX", print the color buffer, and on to the next mask: a shift
\* by one, which after the last bit leaves 0.
PrintSample == /\ pc = "wait"
               /\ get = BranchToSelf
               /\ printed' = Append(printed, [mask |-> TestedMask, frame |-> frame])
               /\ it' = it + 1
               /\ bit' = (bit + 1) % (Bits + 1)
               /\ pc' = IF it' < Iterations THEN "record" ELSE "finished"
               /\ UNCHANGED <<rsx, memory>>

Ppu == WaitForFifo \/ PlaceJump \/ Record \/ Annul \/ Flush \/ PrintSample
Arrive == StoreArrives \/ ClearArrives
Gpu == FrontEnd \/ Engine \/ VBlank

Next == Ppu \/ Arrive \/ (Gpu /\ UNCHANGED <<main, memory>>)

SafeSpec == Init /\ [][Next]_vars

\* Main runs, stores arrive, the RSX works and the display refreshes.
Spec == /\ SafeSpec
        /\ WF_vars(Ppu) /\ WF_vars(Arrive)
        /\ WF_vars(FrontEnd /\ UNCHANGED <<main, memory>>)
        /\ WF_vars(Engine /\ UNCHANGED <<main, memory>>)
        /\ WF_vars(VBlank /\ UNCHANGED <<main, memory>>)
-----------------------------------------------------------------------------
Masks == [valid : 0..(ValidMasks - 1), bit : 0..Bits]
CommandsOK == [op : {"nop"}, arg : {0}] \cup [op : {"jmp"}, arg : Offsets]
              \cup [op : {"draw"}, arg : Masks]
              \cup [op : {"label"}, arg : [at : Words, value : {0, SwapBytes(Fenced)}]]
              \cup [op : {"wait_label"}, arg : [at : Words, value : {Fenced}]]
              \cup [op : {"flip", "wait_flip"}, arg : {0}]
              \cup [op : {"ref"}, arg : {2}]

TypeOK == /\ io \in [Offsets -> CommandsOK]
          /\ put \in Offsets /\ get \in Offsets
          /\ link = NoLink /\ halted = FALSE /\ ref \in {0, 2}
          /\ label \in [Words -> {Untouched, 0, Fenced}]
          /\ pipe \in Seq({c \in CommandsOK : c.op \in Methods})
          /\ Len(pipe) <= PipeDepth
          /\ frame \in Seq(Masks)
          /\ flip \in {"done", "released", "queued"}
          /\ pc \in {"wait_for_fifo", "jump", "record", "annul", "flush", "wait", "finished"}
          /\ it \in 0..Iterations /\ bit \in 0..Bits
          /\ DOMAIN stores \subseteq Offsets
          /\ \A o \in DOMAIN stores : stores[o] \in CommandsOK
          /\ clearing \in BOOLEAN
          /\ Len(printed) = it
          /\ \A i \in 1..it : printed[i].mask \in Masks

\* What is printed for a mask is what one draw with that mask makes of a
\* cleared color buffer: the RSX is done drawing when it is waited for, has
\* not executed a command of an earlier iteration, nor one of this twice.
PrintsOwnMask == \A i \in DOMAIN printed : printed[i].frame = <<printed[i].mask>>

\* The RSX never stands at a command that is about to change under it: while
\* the PPU records, it jumps to itself where the recording stores the same.
NoStoreUnderTheRsx == get # put => get \notin DOMAIN stores

\* The program ends, and "ORis valid masks with a single reserved bit at a time,
\* for completeness it also tests it with valid bits only once": every pair has
\* been tested, once.
Termination == <>(/\ pc = "finished"
                  /\ {printed[i].mask : i \in DOMAIN printed} = Masks
                  /\ Len(printed) = Iterations)
=============================================================================
