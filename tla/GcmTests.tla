------------------------------ MODULE GcmTests ------------------------------
(***************************************************************************)
(* The tests of rsx_tests that record a command buffer and watch what the  *)
(* RSX makes of it.  Their mains are alike: wait for the RSX to be idle,   *)
(* place a jump where it will look next, record commands there, flush, and *)
(* wait for the reference they end with, for ever, or for the dump that a  *)
(* graphics error causes.  What differs is the commands, and which of them *)
(* the RSX chokes on; outcome is what the console's output shows, or what  *)
(* the test is for where there is none.                                    *)
(***************************************************************************)
EXTENDS Naturals, Sequences

CONSTANTS Tests,      \* the tests to run
          PipeDepth   \* how many methods the engine can be behind

\* What the words of the labels hold, as Rsx has it: -2, -1, what the system
\* leaves there (1337c0d3), and 12345678.
Fenced == 98
Ones == 99
Untouched == 34
Value == 37
Words == {16 * index : index \in 64..70} \cup {16 * 69 + 4}
NoLink == 0
FrameDepth == 2
Unset == 9            \* ref before any SET_REFERENCE: -1

\* The reset code of cellGcmInit is a subroutine at 0.  Its buffer ends at
\* Boot, where wait_for_fifo leaves get.  Start stands for io address 1mb.
Reset == 0
Boot == 2
Start == 3
Longest == 12
Offsets == 0..(Start + Longest)
FirstMb == 0..(Start - 1)

VARIABLES io, put, get, link, halted, ref, label, pipe, frame, flip   \* see Rsx
INSTANCE Rsx

VARIABLES test,     \* the test that runs
          pc,       \* where its main is
          batch,    \* which flush it is at
          pos,      \* c.pos(): where it will record
          stores,   \* plain stores to io memory on their way
          low,      \* put holds a low bit that the RSX has not masked
          seen      \* what main has read: whether it saw that bit (put_old and
                    \* put_ugh), or the labels

rsx == <<io, put, get, link, halted, ref, label, pipe, frame, flip>>
main == <<test, pc, batch, pos, seen>>
vars == <<rsx, main, stores, low>>
-----------------------------------------------------------------------------
(* What the tests record. *)

\* Mutant: the front end writes the label, as SetWriteCommandLabel has it do.
gfxFence_FrontEnd == <<Release(Word(64), Fenced), WaitLabel(Fenced), WriteLabel(0)>>

\* "rsx ops fence"
gfxFence == <<WriteLabel(Fenced), WaitLabel(Fenced), WriteLabel(0)>>

\* The value main waits for.  For ever is 0; until the RSX has read all, which
\* is a sleep of seconds or a wait for get, is 8.
Forever == 0
Slept == 8

Batch(cmds, await) == [cmds |-> cmds, await |-> await]
Outcome(end, r) == [end |-> end, ref |-> r]
Test(batches, unmaps, outcome) == [batches |-> batches, unmaps |-> unmaps, outcome |-> outcome]

\* From displaySync on, the same frame is shown again and again.
DisplaySync(cmds) == cmds \o <<Flip, WaitFlip, Reference(2), Jmp(Start + Len(cmds))>>

Shows(cmds) == Test(<<Batch(DisplaySync(cmds), Forever)>>, {}, Outcome("shows", 2))
Finishes(cmds, r) == Test(<<Batch(cmds, r)>>, {}, Outcome("finished", r))
Fails(cmds, await) == Test(<<Batch(cmds, await)>>, {}, Outcome("error", Unset))

base_sample == Shows(<<Draw(1)>> \o gfxFence)
surface_transperancy == Shows(<<Draw(1)>> \o gfxFence)
vertex_base_type_0 == Shows(<<Draw(1)>> \o gfxFence)
disabled_inlined_arrays == Shows(<<Draw(1)>> \o gfxFence)
indices_alignment == Shows(<<Draw(1)>> \o gfxFence)
vertex_push_buffers == Shows(<<Draw(1)>> \o gfxFence)
invalid_primitive == Shows(<<Draw(1)>>)

\* The jump back comes before the reference, which the RSX never reads.
image_in == LET cmds == gfxFence \o <<Draw(1)>> \o gfxFence
            IN  Test(<<Batch(cmds \o <<Flip, WaitFlip, Jmp(Start + Len(cmds)), Reference(2)>>,
                             Forever)>>,
                     {}, Outcome("shows", Unset))

\* debugBreak is a jump to nowhere.
unkown_blend_equation == Fails(DisplaySync(gfxFence \o <<Invalid, Draw(1)>>), Forever)

\* The report is 1 for the condition and 0 after the reference; whether the
\* draw passes is what the test asks of the RSX.
conditional_rendering ==
  LET cmds == <<Draw(1)>> \o gfxFence
  IN  Test(<<Batch(<<Reference(2)>>, 2),
             Batch(cmds \o <<Flip, WaitFlip, Reference(3), Jmp(Start + 1 + Len(cmds))>>, Forever)>>,
           {}, Outcome("shows", 3))

texture_depth == Finishes(<<Draw(1), Flip, Reference(2)>>, 2)
texture_height == Finishes(<<Draw(1), Flip, Reference(2)>>, 2)
texture_size == Fails(<<BadDraw, Flip, Reference(2)>>, 2)
texture_offset == Test(<<Batch(<<Draw(1), Flip, Reference(2), Jmp(Start)>>, Forever)>>,
                       {}, Outcome("shows", 2))
texture_location == Fails(<<BadDraw, Flip, Reference(2), Jmp(Start)>>, Forever)
draw_index_array == Fails(<<BadDraw, Flip, Reference(2), Jmp(Start)>>, 2)
draw_index_array_offset == Finishes(<<Draw(1), Flip, Reference(2), Jmp(Start)>>, 2)
fragment_program_address_0 == Fails(<<BadDraw, Flip, Reference(2)>>, 2)
fragment_program_address_0_2 == Fails(<<Draw(1), Invalid, Reference(2)>>, 2)
unknown_blend_equation == Finishes(<<Reference(2)>>, 2)
set_flip_internals == Finishes(<<Reference(1), Flip, Reference(2)>>, 2)

\* "Try to set offset higher than max": the RSX drops the high bits.
call_offset == Finishes(<<CallTo(Reset)>> \o gfxFence \o <<Reference(2)>>, 2)

\* A return outside of a subroutine, whatever its other bits.
ret_command_opcode == Fails(<<Ret, Nop, Reference(2)>>, 2)

\* Mutant: the count makes no difference.
Push_AnyCount(count, command) == command

\* "call-to-next", in a subroutine: there is one level of them.  The test records
\* at io address 0, over the reset code: Start stands for that address here.
call_stack_limit == Fails(<<CallTo(Start + 1), CallTo(Start + 2), Jmp(Start + 3)>>, Slept)

\* "Unaligned": put is stored with a low bit, and short of the call at the end.
fifo_put_masking == Finishes(<<CallTo(Reset)>> \o gfxFence \o <<Reference(2), Invalid>>, 2)

\* A command with the count 0 is a nop, as the console says of
\* "cmds with count 0"; the values it would have written are nops as well.
Push(count, command) == IF count = 0 THEN Nop ELSE command

\* "If the command aint a nop, REF will be zero"
cmds_with_count_0 == Test(<<Batch(<<Push(1, Reference(4)), Push(0, Reference(0)), Nop>>, Slept)>>,
                          {}, Outcome("finished", 4))

\* Three tests have the RSX end in memory that is not mapped any more, for the
\* dump.  push(GCM_FLIP_HEAD) pushes the bare command: its count is 0.
driver_flip == Test(<<Batch(<<Push(0, Flip), Nop, Push(0, Flip), Nop, Reference(1)>>, 1)>>,
                    Offsets, Outcome("error", 1))
unknown_cull_face == Test(<<Batch(<<Draw(1), Reference(1), Jmp(Start + 2)>>, 1)>>,
                          Offsets, Outcome("error", 1))

\* Io address 1mb is mapped twice.  The later mapping has replaced the earlier:
\* the RSX reads the reference 2.
iomap_overwrite == Test(<<Batch(<<Reference(2), Jmp(Start + 1)>>, 2)>>,
                        Offsets \ FirstMb, Outcome("error", 2))

\* Mutant: the bytes are not swapped.
SetWriteBackEndLabel1_NoSwap(index, value, add) == BackEndRelease(Word(index) + add, value)

\* "swap byte 0 and 2"
SetWriteBackEndLabel1(index, value, add) == BackEndRelease(Word(index) + add, SwapBytes(value))
SetWriteTextureLabel1(index, value, add) == TextureRelease(Word(index) + add, value)
SetWriteCommandLabel1(index, value, add) == Release(Word(index) + add, value)

\* The labels are read when get has reached put and the RSX is idle.
fifo_semaphores_data ==
  Test(<<Batch(<<WriteLabel(Value), TextureRelease(Word(65), Value + 1), Release(Word(66), Value + 2),
                 SetWriteBackEndLabel1(67, Value, 0), SetWriteTextureLabel1(68, Value + 1, 0),
                 SetWriteCommandLabel1(69, Value + 2, 4), SetWriteCommandLabel1(70, Value + 3, 1),
                 WaitForIdle>>, Slept)>>,
       {}, Outcome("finished", Unset))

Programs ==
  [base_sample |-> base_sample, surface_transperancy |-> surface_transperancy,
   vertex_base_type_0 |-> vertex_base_type_0,
   disabled_inlined_arrays |-> disabled_inlined_arrays,
   indices_alignment |-> indices_alignment, vertex_push_buffers |-> vertex_push_buffers,
   invalid_primitive |-> invalid_primitive, image_in |-> image_in,
   unkown_blend_equation |-> unkown_blend_equation,
   conditional_rendering |-> conditional_rendering,
   texture_depth |-> texture_depth, texture_height |-> texture_height,
   texture_size |-> texture_size, texture_offset |-> texture_offset,
   texture_location |-> texture_location, draw_index_array |-> draw_index_array,
   draw_index_array_offset |-> draw_index_array_offset,
   fragment_program_address_0 |-> fragment_program_address_0,
   fragment_program_address_0_2 |-> fragment_program_address_0_2,
   unknown_blend_equation |-> unknown_blend_equation,
   set_flip_internals |-> set_flip_internals, call_offset |-> call_offset,
   ret_command_opcode |-> ret_command_opcode, cmds_with_count_0 |-> cmds_with_count_0,
   call_stack_limit |-> call_stack_limit, fifo_put_masking |-> fifo_put_masking,
   driver_flip |-> driver_flip, unknown_cull_face |-> unknown_cull_face,
   iomap_overwrite |-> iomap_overwrite, fifo_semaphores_data |-> fifo_semaphores_data]

ASSUME GcmTestsAssumption == /\ Tests \subseteq DOMAIN Programs
                             /\ PipeDepth \in Nat \ {0}

Program == Programs[test]
ThisBatch == Program.batches[batch]

Init == /\ test \in Tests
        /\ io = [o \in Offsets |-> IF o = Reset THEN Ret ELSE Nop]
        /\ get = 1 /\ put = Boot
        /\ link = NoLink /\ halted = FALSE
        /\ ref = Unset /\ label = [w \in Words |-> Untouched] /\ pipe = <<>> /\ frame = <<>> /\ flip = "done"
        /\ pc = "wait_for_fifo" /\ batch = 1 /\ pos = Start
        /\ stores = <<>> /\ low = FALSE /\ seen = <<>>
-----------------------------------------------------------------------------
(* What a test's main does. *)

Wait_for_fifo == /\ pc = "wait_for_fifo"
                 /\ put = get
                 /\ pc' = "jump"
                 /\ UNCHANGED <<rsx, test, batch, pos, stores, low, seen>>

Store(new) == stores' = [o \in DOMAIN new \cup DOMAIN stores |->
                           IF o \in DOMAIN new THEN new[o] ELSE stores[o]]

\* "Place a jump into io address 1mb"
PlaceJump == /\ pc = "jump"
             /\ Store([o \in {get} |-> Jmp(Start)])
             /\ pc' = IF test = "fifo_semaphores_data" THEN "set labels" ELSE "record"
             /\ UNCHANGED <<rsx, test, batch, pos, low, seen>>

\* Labels 64 to 66 are filled with zeros, the others with ones, and a fence.
Cleared == [w \in Words |-> IF w < Word(67) THEN 0 ELSE Ones]
SetLabels == /\ pc = "set labels"
             /\ stores = <<>>
             /\ label' = Cleared
             /\ pc' = "record"
             /\ UNCHANGED <<io, put, get, link, halted, ref, pipe, frame, flip,
                            test, batch, pos, stores, low, seen>>

Record == /\ pc = "record"
          /\ LET n == Len(ThisBatch.cmds)
             IN  /\ Store([o \in pos..(pos + n - 1) |-> ThisBatch.cmds[o - pos + 1]])
                 /\ pos' = pos + n
          /\ pc' = "flush"
          /\ UNCHANGED <<rsx, test, batch, low, seen>>

\* Mutant: put is stored without waiting for the commands.
flush_NoFence == /\ pc = "flush"
                 /\ put' = pos
                 /\ pc' = "wait"
                 /\ UNCHANGED <<io, get, link, halted, ref, label, pipe, frame, flip,
                                test, batch, pos, stores, low, seen>>

\* "Similar to cellGcmFlush, except that it's more strict about memory ordering"
flush == /\ pc = "flush" /\ test # "fifo_put_masking"
         /\ stores = <<>>
         /\ put' = pos
         /\ pc' = "wait"
         /\ UNCHANGED <<io, get, link, halted, ref, label, pipe, frame, flip,
                        test, batch, pos, stores, low, seen>>

Awaited == CASE ThisBatch.await = Forever -> FALSE
             [] ThisBatch.await = Slept -> get = put
             [] OTHER -> ref = ThisBatch.await

\* Mutant: there is always something more to record.
NextBatch_NoEnd == /\ pc = "wait" /\ Awaited
                   /\ batch' = batch + 1
                   /\ pc' = "record"
                   /\ UNCHANGED <<rsx, test, pos, stores, low, seen>>

NextBatch == /\ pc = "wait" /\ Awaited
             /\ batch < Len(Program.batches)
             /\ batch' = batch + 1
             /\ pc' = "record"
             /\ UNCHANGED <<rsx, test, pos, stores, low, seen>>

Finish == /\ pc = "wait" /\ Awaited /\ test # "fifo_put_masking"
          /\ batch = Len(Program.batches) /\ Program.unmaps = {}
          /\ seen' = IF test = "fifo_semaphores_data" THEN label ELSE seen
          /\ pc' = "finished"
          /\ UNCHANGED <<rsx, test, batch, pos, stores, low>>

\* "Crash intentionally"
Unmap == /\ pc = "wait" /\ Awaited
         /\ batch = Len(Program.batches) /\ Program.unmaps # {}
         /\ io' = [o \in Offsets |-> IF o \in Program.unmaps THEN Invalid ELSE io[o]]
         /\ pc' = IF Program.unmaps = Offsets THEN "crash" ELSE "for ever"
         /\ UNCHANGED <<put, get, link, halted, ref, label, pipe, frame, flip,
                        test, batch, pos, stores, low, seen>>

Crash == /\ pc = "crash"
         /\ put' = 0
         /\ pc' = "for ever"
         /\ UNCHANGED <<io, get, link, halted, ref, label, pipe, frame, flip,
                        test, batch, pos, stores, low, seen>>

\* store_vol is as strict as the flush.
store_put == /\ put' = pos - 1 /\ low' = TRUE
             /\ UNCHANGED <<io, get, link, halted, ref, label, pipe, frame, flip,
                            test, batch, pos, stores, seen>>

StoreUnaligned == /\ pc = "flush" /\ test = "fifo_put_masking"
                  /\ stores = <<>>
                  /\ store_put
                  /\ pc' = "wait"

LoadOld == /\ pc = "wait" /\ Awaited /\ test = "fifo_put_masking"
           /\ seen' = <<low>>
           /\ pc' = "store"
           /\ UNCHANGED <<rsx, test, batch, pos, stores, low>>

StoreOnce == pc = "store" /\ store_put /\ pc' = "reload"

\* "Check if PUT is modified by rsx at all"
SeeItMasked == /\ pc = "reload" /\ ~low
               /\ pc' = "store again"
               /\ UNCHANGED <<rsx, test, batch, pos, stores, low, seen>>

StoreAgain == pc = "store again" /\ store_put /\ pc' = "reload again"

\* "Check if PUT is not immediately (at the time of write) modified by rsx"
SeeItUnmasked == /\ pc = "reload again" /\ low
                 /\ seen' = Append(seen, low)
                 /\ pc' = "finished"
                 /\ UNCHANGED <<rsx, test, batch, pos, stores, low>>

MissIt == /\ pc = "reload again" /\ ~low
          /\ pc' = "store again"
          /\ UNCHANGED <<rsx, test, batch, pos, stores, low, seen>>

StoreAndReload == \/ StoreUnaligned \/ LoadOld \/ StoreOnce \/ SeeItMasked
                  \/ StoreAgain \/ SeeItUnmasked \/ MissIt

Ppu == \/ StoreAndReload
       \/ Wait_for_fifo \/ PlaceJump \/ SetLabels \/ Record \/ flush
       \/ NextBatch \/ Finish \/ Unmap \/ Crash

StoreArrives == \E o \in DOMAIN stores :
                  /\ io' = [io EXCEPT ![o] = stores[o]]
                  /\ stores' = [p \in DOMAIN stores \ {o} |-> stores[p]]
                  /\ UNCHANGED <<put, get, link, halted, ref, label, pipe, frame, flip, main, low>>

\* The RSX masks put before it reads up to it.
MaskPut == ~halted /\ low /\ low' = FALSE /\ UNCHANGED <<rsx, main, stores>>

Beside(step) == step /\ UNCHANGED <<main, stores, low>>
Gpu == Beside((~low /\ FrontEnd) \/ Engine \/ VBlank) \/ MaskPut

Next == Ppu \/ StoreArrives \/ Gpu

\* Main runs, stores arrive, the RSX works and the display refreshes.
Spec == /\ Init /\ [][Next]_vars
        /\ WF_vars(Ppu) /\ WF_vars(StoreArrives)
        /\ WF_vars(MaskPut) /\ WF_vars(Beside(~low /\ FrontEnd))
        /\ WF_vars(Beside(Engine)) /\ WF_vars(Beside(VBlank))
-----------------------------------------------------------------------------
CommandsOf(t) ==
  UNION {{Programs[t].batches[b].cmds[i] : i \in DOMAIN Programs[t].batches[b].cmds} :
         b \in DOMAIN Programs[t].batches}
Commands == (UNION {CommandsOf(t) : t \in Tests}) \cup {Ret, Nop, Jmp(Start), Invalid}

TypeOK == /\ io \in [Offsets -> Commands]
          /\ put \in Offsets /\ get \in Offsets /\ link \in Offsets
          /\ halted \in BOOLEAN
          /\ ref \in {Unset} \cup 0..4 /\ label \in [Words -> 0..Ones]
          /\ Len(pipe) <= PipeDepth /\ \A i \in DOMAIN pipe : pipe[i].op \in Methods
          /\ Len(frame) <= FrameDepth
          /\ flip \in {"done", "released", "queued"}
          /\ test \in Tests /\ batch \in DOMAIN Program.batches /\ pos \in Offsets
          /\ pc \in {"wait_for_fifo", "jump", "set labels", "record", "flush", "wait", "finished",
                     "crash", "for ever", "store", "reload", "store again", "reload again"}
          /\ low \in BOOLEAN /\ seen \in {<<>>, <<FALSE>>, <<FALSE, TRUE>>} \cup [Words -> 0..Ones]
          /\ \A o \in DOMAIN stores : o \in Offsets /\ stores[o] \in Commands

\* The RSX reads nothing that is still on its way to memory, and nothing that
\* was not recorded for it: what follows the last command in memory is zeros, or
\* an earlier test.  The latter until main has it read unmapped memory, to crash.
ReadsOnlyWhatIsRecorded == get # put => /\ get \notin DOMAIN stores
                                        /\ pc # "for ever" => get < pos

\* "rsx ops fence": what is recorded before a fence has been executed when the
\* RSX goes on after it.
FenceFences == [][ReadWaitLabel => pipe = <<>>]_vars

\* The tests that show a frame flip again and again.  driver flip never flips:
\* the commands it pushes have the count 0, whatever its comments say.
KeepsFlipping == /\ [](Program.outcome.end = "shows" => <>(flip = "queued"))
                 /\ [](test = "driver_flip" => flip = "done")

\* The "Second buf" of the test: a word of each label, the unaligned one not.
SecondBuf == [Cleared EXCEPT ![Word(64)] = Value, ![Word(65)] = Value + 1, ![Word(66)] = Value + 2,
                             ![Word(67)] = Value, ![Word(68)] = Value + 1, ![Word(69) + 4] = Value + 2]

\* A test ends as the console's output says: it finishes, or the RSX stops for
\* a graphics error, with that reference; the others show their draw and go on.
\* "PUT=0x10003c, PUT1=0x10003d": first the bit is gone, and in the end main sees
\* it.  The loop that looks for it ends if the RSX is not always quicker.
AsOnTheConsole ==
  SF_vars(SeeItUnmasked) =>
  /\ <>[](/\ test = "fifo_put_masking" => seen = <<FALSE, TRUE>>
          /\ test = "fifo_semaphores_data" => seen = SecondBuf
          /\ ref = Program.outcome.ref
          /\ halted = (Program.outcome.end = "error")
          /\ (pc = "finished") = (Program.outcome.end = "finished")
          /\ Program.outcome.end = "shows" => frame # <<>>)
  /\ KeepsFlipping
=============================================================================
