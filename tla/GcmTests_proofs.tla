--------------------------- MODULE GcmTests_proofs ---------------------------
(***************************************************************************)
(* Proofs about GcmTests, for any pipe and any of the tests: the RSX reads *)
(* only what is recorded for it, and a fence fences.  The programs are     *)
(* looked at once, for what the proofs need of them: where their jumps go, *)
(* and what is before their fence.                                         *)
(***************************************************************************)
EXTENDS GcmTests, SequenceTheorems, TLAPS

\* Where a batch begins and ends, and the command at an offset.
Batches(t) == Programs[t].batches
Cmds(t, b) == Batches(t)[b].cmds
Begins(t, b) == IF b = 1 THEN Start ELSE Start + Len(Cmds(t, 1))
Ends(t, b) == Begins(t, b) + Len(Cmds(t, b))
Code(t, o) == IF o < Ends(t, 1) THEN Cmds(t, 1)[o - Start + 1]
                                ELSE Cmds(t, 2)[o - Ends(t, 1) + 1]

\* Jumps stay within what is recorded by then.
Jumps == {"jmp", "call"}
Releases == {"label", "texture_label", "release"}
Sound(c, end) == /\ c.op \in Jumps => c.arg \in {Reset} \cup Start..end
                 /\ c.op = "ref" => c.arg \in 0..4
                 /\ c.op \in Releases => c.arg.value \in 0..Ones

\* A program is at most two batches; it waits for the first to be read.
BatchOK(t, b) ==
  /\ Len(Cmds(t, b)) \in Nat \ {0} /\ DOMAIN Cmds(t, b) = 1..Len(Cmds(t, b))
  /\ Ends(t, b) \in Offsets
  /\ \A o \in Start..(Ends(t, b) - 1) : Sound(Code(t, o), Ends(t, b))
ProgramOK(t) ==
  /\ Len(Batches(t)) \in {1, 2} /\ DOMAIN Batches(t) = 1..Len(Batches(t))
  /\ \A b \in DOMAIN Batches(t) : BatchOK(t, b)
  /\ Len(Batches(t)) = 2 => /\ Len(Cmds(t, 1)) = 1 /\ Batches(t)[1].await \notin {Forever, Slept, Unset}
                            /\ t \notin {"fifo_put_masking", "fifo_semaphores_data"}
  /\ Programs[t].unmaps \in {{}, Offsets, Offsets \ FirstMb}

\* The one that stores put unaligned waits for its reference, and jumps nowhere.
UnalignedOK(t) ==
  /\ Len(Batches(t)) = 1 /\ DOMAIN Batches(t) = {1} /\ Batches(t)[1].await = 2 /\ Programs[t].unmaps = {}
  /\ \A o \in Start..(Ends(t, 1) - 1) : Code(t, o).op \in Jumps => Code(t, o).arg = Reset

\* The fence of a program, if it has one, is the only release of its value up to
\* the wait, and nothing goes back to before it.
Frees(c) == c.op \in Releases /\ c.arg.at = Word(64)
            /\ Fenced = IF c.op = "label" THEN SwapBytes(c.arg.value) ELSE c.arg.value
Recorded(t) == Start..(Ends(t, Len(Batches(t))) - 1)
Waits(t) == {o \in Recorded(t) : Code(t, o).op = "wait_label"}
FenceOK(t, f) ==
  /\ f - 1 \in Recorded(t)
  /\ Code(t, f - 1) = WriteLabel(Fenced) /\ Code(t, f) = WaitLabel(Fenced)
  /\ \A o \in Recorded(t) :
       LET c == Code(t, o) IN
         /\ o < f - 1 => ~Frees(c)
         /\ c.op # "ret"
         /\ c.op = "call" => c.arg = Reset /\ o < f - 1
         /\ c.op = "jmp" => c.arg # Reset /\ (c.arg < f <=> o < f) /\ c.arg # f

\* The same of a list of commands, whatever batch it becomes: whether its jumps
\* stay within it, and whether its k-th command is the wait of a fence.
ListOK(cmds, n) == /\ n \in 1..Longest /\ Len(cmds) = n /\ DOMAIN cmds = 1..n
                   /\ \A i \in 1..n : Sound(cmds[i], Start + n)
NoFence(cmds) == \A i \in DOMAIN cmds : cmds[i].op # "wait_label"
FenceAt(cmds, at, k) ==
  /\ {k - 1, k} \subseteq DOMAIN cmds /\ cmds[k - 1] = WriteLabel(Fenced) /\ cmds[k] = WaitLabel(Fenced)
  /\ \A i \in DOMAIN cmds :
       LET c == cmds[i] IN
         /\ i # k => c.op # "wait_label"
         /\ i < k - 1 => ~Frees(c)
         /\ c.op # "ret"
         /\ c.op = "call" => c.arg = Reset /\ i < k - 1
         /\ c.op = "jmp" => c.arg # Reset /\ (c.arg < at + k - 1 <=> i < k) /\ c.arg # at + k - 1
Plain(cmds, n) == ListOK(cmds, n) /\ NoFence(cmds)
FencedList(cmds, n, k) == ListOK(cmds, n) /\ FenceAt(cmds, Start, k)

\* The test t records one batch.
Records(t, cmds, unmaps) == /\ Len(Batches(t)) = 1 /\ DOMAIN Batches(t) = 1..1
                            /\ Cmds(t, 1) = cmds /\ Programs[t].unmaps = unmaps

\* What the other proofs use of a program.
Understood(t) == ProgramOK(t) /\ (t # "image_in" => \A f \in Waits(t) : FenceOK(t, f))
-----------------------------------------------------------------------------
(* The programs. *)

\* What holds of the list of a test with one batch holds of the test.
LEMMA OneBatch ==
  ASSUME NEW t, NEW cmds, NEW n, NEW unmaps \in {{}, Offsets, Offsets \ FirstMb},
         Records(t, cmds, unmaps), ListOK(cmds, n)
  PROVE  /\ ProgramOK(t)
         /\ Plain(cmds, n) => Understood(t)
         /\ \A k \in Nat : FencedList(cmds, n, k) => Understood(t)
<1>1. /\ Ends(t, 1) = Start + n /\ Start + n \in Offsets /\ n \in Nat \ {0}
      /\ \A o \in Start..(Start + n - 1) : Code(t, o) = cmds[o - Start + 1] /\ o - Start + 1 \in 1..n
  BY DEF Records, ListOK, Ends, Begins, Code, Start, Offsets, Longest
<1>2. Recorded(t) = Start..(Start + n - 1)
  <2>1. Len(Batches(t)) = 1
    BY DEF Records
  <2>2. Recorded(t) = Start..(Ends(t, 1) - 1)
    BY <2>1 DEF Recorded
  <2> QED
    BY <2>2, <1>1 DEF Start, ListOK
<1>3. ProgramOK(t)
  <2>1. Len(Batches(t)) = 1 /\ DOMAIN Batches(t) = {1} /\ Programs[t].unmaps \in {{}, Offsets, Offsets \ FirstMb}
    BY DEF Records
  <2>2. BatchOK(t, 1)
    <3>1. Len(Cmds(t, 1)) = n /\ DOMAIN Cmds(t, 1) = 1..n /\ \A i \in 1..n : Sound(cmds[i], Ends(t, 1))
      BY <1>1 DEF Records, ListOK
    <3> QED
      BY <1>1, <3>1 DEF BatchOK, Start, ListOK
  <2> QED
    BY <2>1, <2>2 DEF ProgramOK
<1>4. NoFence(cmds) => Waits(t) = {}
  BY <1>1, <1>2 DEF NoFence, Waits, ListOK
<1>5. ASSUME NEW k \in Nat, FenceAt(cmds, Start, k), NEW f \in Waits(t)
      PROVE  FenceOK(t, f)
  <2>1. f = Start + k - 1 /\ f \in Start..(Start + n - 1)
    BY <1>1, <1>2, <1>5 DEF FenceAt, Waits, ListOK, Start
  <2>2. f - 1 \in Recorded(t) /\ Code(t, f - 1) = WriteLabel(Fenced) /\ Code(t, f) = WaitLabel(Fenced)
    BY <1>1, <1>2, <1>5, <2>1 DEF FenceAt, ListOK, Start
  <2>3. ASSUME NEW o \in Recorded(t)
        PROVE  LET c == Code(t, o) IN
                 /\ o < f - 1 => ~Frees(c)
                 /\ c.op # "ret"
                 /\ c.op = "call" => c.arg = Reset /\ o < f - 1
                 /\ c.op = "jmp" => c.arg # Reset /\ (c.arg < f <=> o < f) /\ c.arg # f
    <3> DEFINE i == o - Start + 1
    <3>1. i \in DOMAIN cmds /\ Code(t, o) = cmds[i] /\ (o < f - 1 <=> i < k - 1) /\ (o < f <=> i < k)
      BY <1>1, <1>2, <2>1 DEF ListOK, Start
    <3> QED
      BY <3>1, <2>1, <1>5 DEF FenceAt
  <2> QED
    BY <2>2, <2>3 DEF FenceOK
<1> QED
  BY <1>3, <1>4, <1>5 DEF Plain, FencedList, Understood

\* A test with such a list and no fence is understood.
LEMMA PlainBatch ==
  ASSUME NEW t, NEW cmds, NEW n, NEW unmaps \in {{}, Offsets, Offsets \ FirstMb},
         Records(t, cmds, unmaps), Plain(cmds, n)
  PROVE  Understood(t)
<1>1. ListOK(cmds, n)
  BY DEF Plain
<1> QED
  BY <1>1, OneBatch

\* A test with such a list and a fence in it is understood.
LEMMA FencedBatch ==
  ASSUME NEW t, NEW cmds, NEW n, NEW k \in Nat, NEW unmaps \in {{}, Offsets, Offsets \ FirstMb},
         Records(t, cmds, unmaps), FencedList(cmds, n, k)
  PROVE  Understood(t)
<1>1. ListOK(cmds, n)
  BY DEF FencedList
<1> QED
  BY <1>1, OneBatch

\* The lists without a fence that the tests record.
LEMMA PlainLists ==
  /\ Plain(DisplaySync(<<Draw(1)>>), 5)
  /\ Plain(<<Draw(1), Flip, Reference(2)>>, 3)
  /\ Plain(<<BadDraw, Flip, Reference(2)>>, 3)
  /\ Plain(<<Draw(1), Flip, Reference(2), Jmp(Start)>>, 4)
  /\ Plain(<<BadDraw, Flip, Reference(2), Jmp(Start)>>, 4)
  /\ Plain(<<Draw(1), Invalid, Reference(2)>>, 3)
  /\ Plain(<<Reference(2)>>, 1)
  /\ Plain(<<Reference(1), Flip, Reference(2)>>, 3)
  /\ Plain(<<Ret, Nop, Reference(2)>>, 3)
  /\ Plain(<<CallTo(Start + 1), CallTo(Start + 2), Jmp(Start + 3)>>, 3)
  /\ Plain(<<Push(1, Reference(4)), Push(0, Reference(0)), Nop>>, 3)
  /\ Plain(<<Push(0, Flip), Nop, Push(0, Flip), Nop, Reference(1)>>, 5)
  /\ Plain(<<Draw(1), Reference(1), Jmp(Start + 2)>>, 3)
  /\ Plain(<<Reference(2), Jmp(Start + 1)>>, 2)
  /\ Plain(<<WriteLabel(Value), TextureRelease(Word(65), Value + 1), Release(Word(66), Value + 2),
               SetWriteBackEndLabel1(67, Value, 0), SetWriteTextureLabel1(68, Value + 1, 0),
               SetWriteCommandLabel1(69, Value + 2, 4), SetWriteCommandLabel1(70, Value + 3, 1),
               WaitForIdle>>, 8)
<1> USE DEF Plain, NoFence, ListOK, Sound, Jumps, Releases, Start, Longest, Reset, Ones, Value,
           DisplaySync, Push, SetWriteBackEndLabel1, SetWriteTextureLabel1, SetWriteCommandLabel1,
           Draw, BadDraw, Flip, WaitFlip, Reference, Jmp, CallTo, Ret, Nop, Invalid, WaitForIdle,
           WriteLabel, BackEndRelease, TextureRelease, Release, SwapBytes, Word, Cmd
<1>1. Plain(DisplaySync(<<Draw(1)>>), 5)
  OBVIOUS
<1>2. Plain(<<Draw(1), Flip, Reference(2)>>, 3)
  OBVIOUS
<1>3. Plain(<<BadDraw, Flip, Reference(2)>>, 3)
  OBVIOUS
<1>4. Plain(<<Draw(1), Flip, Reference(2), Jmp(Start)>>, 4)
  OBVIOUS
<1>5. Plain(<<BadDraw, Flip, Reference(2), Jmp(Start)>>, 4)
  OBVIOUS
<1>6. Plain(<<Draw(1), Invalid, Reference(2)>>, 3)
  OBVIOUS
<1>7. Plain(<<Reference(2)>>, 1)
  OBVIOUS
<1>8. Plain(<<Reference(1), Flip, Reference(2)>>, 3)
  OBVIOUS
<1>9. Plain(<<Ret, Nop, Reference(2)>>, 3)
  OBVIOUS
<1>10. Plain(<<CallTo(Start + 1), CallTo(Start + 2), Jmp(Start + 3)>>, 3)
  OBVIOUS
<1>11. Plain(<<Push(1, Reference(4)), Push(0, Reference(0)), Nop>>, 3)
  OBVIOUS
<1>12. Plain(<<Push(0, Flip), Nop, Push(0, Flip), Nop, Reference(1)>>, 5)
  OBVIOUS
<1>13. Plain(<<Draw(1), Reference(1), Jmp(Start + 2)>>, 3)
  OBVIOUS
<1>14. Plain(<<Reference(2), Jmp(Start + 1)>>, 2)
  OBVIOUS
<1>15. Plain(<<WriteLabel(Value), TextureRelease(Word(65), Value + 1), Release(Word(66), Value + 2),
               SetWriteBackEndLabel1(67, Value, 0), SetWriteTextureLabel1(68, Value + 1, 0),
               SetWriteCommandLabel1(69, Value + 2, 4), SetWriteCommandLabel1(70, Value + 3, 1),
               WaitForIdle>>, 8)
  OBVIOUS
<1> QED
  BY <1>1, <1>2, <1>3, <1>4, <1>5, <1>6, <1>7, <1>8, <1>9, <1>10, <1>11, <1>12, <1>13, <1>14, <1>15

\* The lists with a fence.
LEMMA FencedLists ==
  /\ FencedList(DisplaySync(<<Draw(1)>> \o gfxFence), 8, 3)
  /\ FencedList(DisplaySync(gfxFence \o <<Invalid, Draw(1)>>), 9, 2)
  /\ FencedList(<<CallTo(Reset)>> \o gfxFence \o <<Reference(2)>>, 5, 3)
  /\ FencedList(<<CallTo(Reset)>> \o gfxFence \o <<Reference(2), Invalid>>, 6, 3)
<1> USE DEF FencedList, FenceAt, Frees, ListOK, Sound, Jumps, Releases, Start, Longest, Reset, Ones,
            Fenced,
           DisplaySync, gfxFence, Draw, Flip, WaitFlip, Reference, Jmp, CallTo, Invalid,
           WriteLabel, WaitLabel, BackEndRelease, Acquire, SwapBytes, Word, Cmd
<1>1. FencedList(DisplaySync(<<Draw(1)>> \o gfxFence), 8, 3)
  OBVIOUS
<1>2. FencedList(DisplaySync(gfxFence \o <<Invalid, Draw(1)>>), 9, 2)
  OBVIOUS
<1>3. FencedList(<<CallTo(Reset)>> \o gfxFence \o <<Reference(2)>>, 5, 3)
  OBVIOUS
<1>4. FencedList(<<CallTo(Reset)>> \o gfxFence \o <<Reference(2), Invalid>>, 6, 3)
  OBVIOUS
<1> QED
  BY <1>1, <1>2, <1>3, <1>4

\* The tests with one batch and at most one fence.
LEMMA OneBatchTests ==
  ASSUME NEW t \in DOMAIN Programs \ {"image_in", "conditional_rendering"}
  PROVE  Understood(t)
<1> USE DEF Programs, Test, Batch, Batches, Cmds
<1>1. CASE t \in {"base_sample", "surface_transperancy", "vertex_base_type_0", "disabled_inlined_arrays",
                  "indices_alignment", "vertex_push_buffers"}
  <2>1. Records(t, DisplaySync(<<Draw(1)>> \o gfxFence), {})
    BY <1>1 DEF Records, Shows, Finishes, Fails, base_sample, surface_transperancy, vertex_base_type_0,
                disabled_inlined_arrays, indices_alignment, vertex_push_buffers
  <2> QED
    BY <2>1, FencedLists, FencedBatch
<1>2. CASE t = "invalid_primitive"
  <2>1. Records("invalid_primitive", DisplaySync(<<Draw(1)>>), {})
    BY DEF Records, Shows, Finishes, Fails, invalid_primitive
  <2> QED
    BY <1>2, <2>1, PlainLists, PlainBatch
<1>3. CASE t = "unkown_blend_equation"
  <2>1. Records("unkown_blend_equation", DisplaySync(gfxFence \o <<Invalid, Draw(1)>>), {})
    BY DEF Records, Shows, Finishes, Fails, unkown_blend_equation
  <2> QED
    BY <1>3, <2>1, FencedLists, FencedBatch
<1>4. CASE t \in {"texture_depth", "texture_height"}
  <2>1. Records(t, <<Draw(1), Flip, Reference(2)>>, {})
    BY <1>4 DEF Records, Shows, Finishes, Fails, texture_depth, texture_height
  <2> QED
    BY <2>1, PlainLists, PlainBatch
<1>5. CASE t \in {"texture_size", "fragment_program_address_0"}
  <2>1. Records(t, <<BadDraw, Flip, Reference(2)>>, {})
    BY <1>5 DEF Records, Shows, Finishes, Fails, texture_size, fragment_program_address_0
  <2> QED
    BY <2>1, PlainLists, PlainBatch
<1>6. CASE t \in {"texture_offset", "draw_index_array_offset"}
  <2>1. Records(t, <<Draw(1), Flip, Reference(2), Jmp(Start)>>, {})
    BY <1>6 DEF Records, Shows, Finishes, Fails, texture_offset, draw_index_array_offset
  <2> QED
    BY <2>1, PlainLists, PlainBatch
<1>7. CASE t \in {"texture_location", "draw_index_array"}
  <2>1. Records(t, <<BadDraw, Flip, Reference(2), Jmp(Start)>>, {})
    BY <1>7 DEF Records, Shows, Finishes, Fails, texture_location, draw_index_array
  <2> QED
    BY <2>1, PlainLists, PlainBatch
<1>8. CASE t = "fragment_program_address_0_2"
  <2>1. Records("fragment_program_address_0_2", <<Draw(1), Invalid, Reference(2)>>, {})
    BY DEF Records, Shows, Finishes, Fails, fragment_program_address_0_2
  <2> QED
    BY <1>8, <2>1, PlainLists, PlainBatch
<1>9. CASE t = "unknown_blend_equation"
  <2>1. Records("unknown_blend_equation", <<Reference(2)>>, {})
    BY DEF Records, Shows, Finishes, Fails, unknown_blend_equation
  <2> QED
    BY <1>9, <2>1, PlainLists, PlainBatch
<1>10. CASE t = "set_flip_internals"
  <2>1. Records("set_flip_internals", <<Reference(1), Flip, Reference(2)>>, {})
    BY DEF Records, Shows, Finishes, Fails, set_flip_internals
  <2> QED
    BY <1>10, <2>1, PlainLists, PlainBatch
<1>11. CASE t = "call_offset"
  <2>1. Records("call_offset", <<CallTo(Reset)>> \o gfxFence \o <<Reference(2)>>, {})
    BY DEF Records, Shows, Finishes, Fails, call_offset
  <2> QED
    BY <1>11, <2>1, FencedLists, FencedBatch
<1>12. CASE t = "ret_command_opcode"
  <2>1. Records("ret_command_opcode", <<Ret, Nop, Reference(2)>>, {})
    BY DEF Records, Shows, Finishes, Fails, ret_command_opcode
  <2> QED
    BY <1>12, <2>1, PlainLists, PlainBatch
<1>13. CASE t = "call_stack_limit"
  <2>1. Records("call_stack_limit", <<CallTo(Start + 1), CallTo(Start + 2), Jmp(Start + 3)>>, {})
    BY DEF Records, Shows, Finishes, Fails, call_stack_limit
  <2> QED
    BY <1>13, <2>1, PlainLists, PlainBatch
<1>14. CASE t = "fifo_put_masking"
  <2>1. Records("fifo_put_masking", <<CallTo(Reset)>> \o gfxFence \o <<Reference(2), Invalid>>, {})
    BY DEF Records, Shows, Finishes, Fails, fifo_put_masking
  <2> QED
    BY <1>14, <2>1, FencedLists, FencedBatch
<1>15. CASE t = "cmds_with_count_0"
  <2>1. Records("cmds_with_count_0", <<Push(1, Reference(4)), Push(0, Reference(0)), Nop>>, {})
    BY DEF Records, Shows, Finishes, Fails, cmds_with_count_0
  <2> QED
    BY <1>15, <2>1, PlainLists, PlainBatch
<1>16. CASE t = "driver_flip"
  <2>1. Records("driver_flip", <<Push(0, Flip), Nop, Push(0, Flip), Nop, Reference(1)>>, Offsets)
    BY DEF Records, Shows, Finishes, Fails, driver_flip
  <2> QED
    BY <1>16, <2>1, PlainLists, PlainBatch
<1>17. CASE t = "unknown_cull_face"
  <2>1. Records("unknown_cull_face", <<Draw(1), Reference(1), Jmp(Start + 2)>>, Offsets)
    BY DEF Records, Shows, Finishes, Fails, unknown_cull_face
  <2> QED
    BY <1>17, <2>1, PlainLists, PlainBatch
<1>18. CASE t = "iomap_overwrite"
  <2>1. Records("iomap_overwrite", <<Reference(2), Jmp(Start + 1)>>, Offsets \ FirstMb)
    BY DEF Records, Shows, Finishes, Fails, iomap_overwrite
  <2> QED
    BY <1>18, <2>1, PlainLists, PlainBatch
<1>19. CASE t = "fifo_semaphores_data"
  <2>1. Records("fifo_semaphores_data", <<WriteLabel(Value), TextureRelease(Word(65), Value + 1), Release(Word(66), Value + 2),
               SetWriteBackEndLabel1(67, Value, 0), SetWriteTextureLabel1(68, Value + 1, 0),
               SetWriteCommandLabel1(69, Value + 2, 4), SetWriteCommandLabel1(70, Value + 3, 1),
               WaitForIdle>>, {})
    BY DEF Records, Shows, Finishes, Fails, fifo_semaphores_data
  <2> QED
    BY <1>19, <2>1, PlainLists, PlainBatch
<1> HIDE DEF Test, Batch, Batches, Cmds
<1> QED
  BY <1>1, <1>2, <1>3, <1>4, <1>5, <1>6, <1>7, <1>8, <1>9, <1>10, <1>11, <1>12, <1>13, <1>14, <1>15,
     <1>16, <1>17, <1>18, <1>19 DEF Programs

\* "image in" has two fences: only where its jumps go.
LEMMA ImageIn == ProgramOK("image_in")
<1> DEFINE cmds == gfxFence \o <<Draw(1)>> \o gfxFence \o <<Flip, WaitFlip, Jmp(Start + 7), Reference(2)>>
<1>1. Len(gfxFence \o <<Draw(1)>> \o gfxFence) = 7
  BY DEF gfxFence
<1>2. Records("image_in", cmds, {})
  BY <1>1 DEF Records, Programs, image_in, Test, Batch, Batches, Cmds
<1>3. ListOK(cmds, 11)
  BY DEF ListOK, gfxFence, Draw, WriteLabel, WaitLabel, BackEndRelease, Release, Acquire, Flip,
         WaitFlip,
         Reference, Jmp, Cmd, SwapBytes, Word, Fenced, Start, Sound, Jumps, Releases, Reset, Ones, Longest
<1> QED
  BY <1>2, <1>3, OneBatch

\* The test with two batches; the fence is in the second.
LEMMA ConditionalRendering == Understood("conditional_rendering")
<1> DEFINE t == "conditional_rendering"
           before == <<Draw(1)>> \o gfxFence
           cmds == before \o <<Flip, WaitFlip, Reference(3), Jmp(Start + 1 + Len(before))>>
<1>1. /\ Len(Batches(t)) = 2 /\ DOMAIN Batches(t) = {1, 2} /\ Programs[t].unmaps = {}
      /\ Cmds(t, 1) = <<Reference(2)>> /\ Batches(t)[1].await = 2
      /\ Cmds(t, 2) = cmds
  BY DEF Programs, conditional_rendering, Test, Batch, Batches, Cmds
<1>2. ListOK(<<Reference(2)>>, 1)
  BY DEF ListOK, Reference, Cmd, Start, Sound, Jumps, Releases, Longest
<1>3. Len(before) = 4
  BY DEF gfxFence
<1>4. ListOK(cmds, 8) /\ FenceAt(cmds, Start + 1, 3)
  BY <1>3
     DEF FenceAt, Frees, ListOK, gfxFence, Draw, WriteLabel, WaitLabel, BackEndRelease, Release,
         Acquire, Flip, WaitFlip,
         Reference, Jmp, Cmd, SwapBytes, Word, Fenced, Start, Sound, Jumps, Releases, Reset, Ones, Longest
<1> HIDE DEF t, cmds
<1>5. /\ Begins(t, 1) = 3 /\ Begins(t, 2) = 4 /\ Ends(t, 1) = 4 /\ Ends(t, 2) = 12 /\ {4, 12} \subseteq Offsets
      /\ Code(t, 3) = Reference(2)
      /\ \A o \in 4..11 : Code(t, o) = cmds[o - 3] /\ o - 3 \in 1..8
  <2>1. Len(Cmds(t, 1)) = 1 /\ Len(Cmds(t, 2)) = 8
    BY <1>1, <1>2, <1>4 DEF ListOK
  <2>2. Begins(t, 1) = 3 /\ Begins(t, 2) = 4
    BY <2>1 DEF Begins, Cmds, Start
  <2>3. Ends(t, 1) = 4 /\ Ends(t, 2) = 12
    BY <2>1 DEF Ends, Begins, Cmds, Start
  <2>4. \A o \in 4..11 : Code(t, o) = cmds[o - 3] /\ o - 3 \in 1..8
    BY <2>3, <1>1 DEF Code
  <2>5. Code(t, 3) = Reference(2)
    BY <2>3, <1>1 DEF Code, Start
  <2> QED
    BY <2>2, <2>3, <2>4, <2>5 DEF Offsets, Longest, Start
<1>6. BatchOK(t, 1)
  <2>1. Len(Cmds(t, 1)) = 1 /\ DOMAIN Cmds(t, 1) = 1..1
    BY <1>1, <1>2 DEF ListOK
  <2>2. \A o \in 3..3 : Sound(Code(t, o), 4)
    BY <1>5 DEF Sound, Reference, Cmd, Jumps, Releases
  <2> QED
    BY <2>1, <2>2, <1>5 DEF BatchOK, Cmds, Start
<1>7. BatchOK(t, 2)
  <2>1. \A o \in 4..11 : Sound(Code(t, o), 12)
    BY <1>5, <1>4 DEF ListOK, Sound, Start
  <2>2. Sound(Code(t, 3), 12)
    BY <1>5 DEF Sound, Reference, Cmd, Jumps, Releases
  <2>3. Len(Cmds(t, 2)) = 8 /\ DOMAIN Cmds(t, 2) = 1..8
    BY <1>1, <1>4 DEF ListOK
  <2> QED
    BY <1>5, <2>1, <2>2, <2>3 DEF BatchOK, Cmds, Start
<1>8. ProgramOK(t)
  <2>1. Len(Batches(t)) = 2 /\ DOMAIN Batches(t) = {1, 2} /\ Programs[t].unmaps \in {{}, Offsets, Offsets \ FirstMb}
    BY <1>1
  <2>2. Len(Cmds(t, 1)) = 1 /\ Batches(t)[1].await \notin {Forever, Slept, Unset}
    BY <1>1, <1>2 DEF ListOK, Forever, Slept, Unset
  <2>3. t \notin {"fifo_put_masking", "fifo_semaphores_data"}
    BY DEF t
  <2> QED
    BY <1>6, <1>7, <2>1, <2>2, <2>3 DEF ProgramOK
<1>9. Recorded(t) = 3..11
  <2>1. Recorded(t) = Start..(Ends(t, 2) - 1)
    BY <1>1 DEF Recorded
  <2> QED
    BY <2>1, <1>5 DEF Start
<1>10. ASSUME NEW f \in Waits(t)
       PROVE  FenceOK(t, f)
  <2>1. Code(t, 3).op = "ref" /\ ~Frees(Code(t, 3))
    BY <1>5 DEF Reference, Cmd, Frees, Releases
  <2>2. f = 6
    BY <1>5, <1>9, <1>4, <2>1 DEF Waits, FenceAt, ListOK
  <2>3. f - 1 \in Recorded(t) /\ Code(t, f - 1) = WriteLabel(Fenced) /\ Code(t, f) = WaitLabel(Fenced)
    BY <1>5, <1>9, <1>4, <2>2 DEF FenceAt
  <2>4. ASSUME NEW o \in Recorded(t)
        PROVE  LET c == Code(t, o) IN
                 /\ o < f - 1 => ~Frees(c)
                 /\ c.op # "ret"
                 /\ c.op = "call" => c.arg = Reset /\ o < f - 1
                 /\ c.op = "jmp" => c.arg # Reset /\ (c.arg < f <=> o < f) /\ c.arg # f
    <3>1. CASE o = 3
      BY <3>1, <2>1, <2>2
    <3>2. CASE o # 3
      <4>1. o - 3 \in DOMAIN cmds /\ Code(t, o) = cmds[o - 3] /\ (o < f - 1 <=> o - 3 < 3 - 1) /\ (o < f <=> o - 3 < 3)
        BY <3>2, <1>5, <1>9, <1>4, <2>2 DEF ListOK
      <4> QED
        BY <4>1, <2>2, <1>4 DEF FenceAt, Start
    <3> QED
      BY <3>1, <3>2
  <2> QED
    BY <2>3, <2>4 DEF FenceOK
<1> QED
  BY <1>8, <1>10 DEF Understood, t

\* The test that stores put unaligned.
LEMMA Unaligned == UnalignedOK("fifo_put_masking")
<1> DEFINE t == "fifo_put_masking"
           cmds == <<CallTo(Reset)>> \o gfxFence \o <<Reference(2), Invalid>>
<1>1. /\ Len(Batches(t)) = 1 /\ DOMAIN Batches(t) = {1} /\ Batches(t)[1].await = 2 /\ Programs[t].unmaps = {}
      /\ Cmds(t, 1) = cmds
  BY DEF Programs, fifo_put_masking, Finishes, Test, Batch, Batches, Cmds
<1>2. Len(cmds) = 6 /\ \A i \in 1..6 : cmds[i].op \in Jumps => cmds[i].arg = Reset
  BY DEF gfxFence, WriteLabel, WaitLabel, BackEndRelease, Release, Acquire,
         Reference, CallTo, Invalid, Cmd, Jumps, Reset
<1> HIDE DEF t, cmds
<1>3. Ends(t, 1) = 9 /\ \A o \in 3..8 : Code(t, o) = cmds[o - 2] /\ o - 2 \in 1..6
  <2>1. Ends(t, 1) = 9
    BY <1>1, <1>2 DEF Begins, Ends, Cmds, Start
  <2> QED
    BY <2>1, <1>1 DEF Code, Start
<1> QED
  BY <1>1, <1>2, <1>3 DEF UnalignedOK, Start, t
\* Every program is understood.
LEMMA AllUnderstood ==
  ASSUME NEW t \in Tests
  PROVE  ProgramOK(t) /\ (t # "image_in" => \A f \in Waits(t) : FenceOK(t, f))
<1>1. t \in DOMAIN Programs
  BY GcmTestsAssumption
<1>2. CASE t = "image_in"
  BY <1>2, ImageIn
<1>3. CASE t = "conditional_rendering"
  BY <1>3, ConditionalRendering DEF Understood
<1>4. CASE t \notin {"image_in", "conditional_rendering"}
  BY <1>1, <1>4, OneBatchTests DEF Understood
<1> QED
  BY <1>2, <1>3, <1>4

\* Where the batches of a program are, one after the other from Start on.
LEMMA Layout ==
  ASSUME NEW t \in Tests, NEW b \in DOMAIN Batches(t)
  PROVE  /\ Begins(t, b) \in Nat /\ Ends(t, b) \in Offsets
         /\ Start <= Begins(t, b) /\ Begins(t, b) < Ends(t, b)
         /\ Len(Cmds(t, b)) \in Nat /\ Ends(t, b) = Begins(t, b) + Len(Cmds(t, b))
         /\ DOMAIN Cmds(t, b) = 1..Len(Cmds(t, b))
         /\ b \in Nat /\ (b = 1 => Begins(t, b) = Start)
<1>1. BatchOK(t, b) /\ b \in {1, 2} /\ (b = 2 => Len(Cmds(t, 1)) = 1)
  BY AllUnderstood DEF ProgramOK
<1>2. CASE b = 1
  BY <1>1, <1>2 DEF BatchOK, Begins, Ends, Start, Offsets, Longest
<1>3. CASE b = 2
  <2>1. Len(Cmds(t, 1)) = 1
    BY <1>1, <1>3
  <2>2. Begins(t, b) = 4
    BY <2>1, <1>3 DEF Begins, Cmds, Start
  <2> QED
    BY <1>1, <1>3, <2>2 DEF BatchOK, Ends, Start, Offsets, Longest
<1> QED
  BY <1>1, <1>2, <1>3

\* What is recorded, offset by offset.
LEMMA Listing ==
  ASSUME NEW t \in Tests, NEW b \in DOMAIN Batches(t)
  PROVE  /\ \A o \in Begins(t, b)..(Ends(t, b) - 1) : Cmds(t, b)[o - Begins(t, b) + 1] = Code(t, o)
         /\ \A o \in Start..(Ends(t, b) - 1) : /\ Code(t, o) \in CommandsOf(t)
                                               /\ Sound(Code(t, o), Ends(t, b))
                                               /\ o \in Recorded(t)
<1>1. b \in {1, 2} /\ Len(Batches(t)) \in {1, 2} /\ DOMAIN Batches(t) = 1..Len(Batches(t))
  BY AllUnderstood DEF ProgramOK
<1>2. 1 \in DOMAIN Batches(t) /\ b <= Len(Batches(t))
  BY <1>1
<1>3. \A o \in Start..(Ends(t, b) - 1) : Sound(Code(t, o), Ends(t, b))
  BY AllUnderstood DEF ProgramOK, BatchOK
<1>4. ASSUME NEW c \in DOMAIN Batches(t), NEW i \in 1..Len(Cmds(t, c))
      PROVE  Cmds(t, c)[i] \in CommandsOf(t)
  BY <1>4, Layout DEF CommandsOf, Cmds, Batches
<1> DEFINE n == Len(Batches(t))
           L == Len(Cmds(t, 1))
<1>5. L \in Nat /\ Ends(t, 1) = Start + L
  BY <1>2, Layout DEF Begins, Start
<1>6. n \in DOMAIN Batches(t) /\ n \in Nat /\ b \in Nat /\ b <= n /\ Ends(t, n) \in Nat /\ Ends(t, b) \in Nat
  BY <1>1, <1>2, Layout DEF Offsets, Start, Longest
<1>7. b # 1 => Begins(t, b) = Start + L
  BY DEF Begins
<1>8. Ends(t, b) <= Ends(t, n)
  <2>1. CASE b = n
    BY <2>1, <1>6
  <2>2. CASE b # n
    <3>1. b = 1 /\ n = 2
      <4>1. b \in {1, 2} /\ n \in {1, 2} /\ b <= n
        BY <1>1, <1>6
      <4> HIDE DEF n
      <4> QED
        BY <4>1, <2>2
    <3>2. Begins(t, n) = Start + L
      BY <3>1 DEF Begins
    <3>3. Begins(t, n) < Ends(t, n)
      BY <1>6, Layout
    <3>4. Ends(t, b) = Start + L
      BY <3>1, <1>5
    <3> QED
      BY <3>2, <3>3, <3>4, <1>6, <1>5 DEF Start
  <2> QED
    BY <2>1, <2>2
<1>9. \A o \in Start..(Ends(t, b) - 1) : o \in Recorded(t)
  BY <1>6, <1>8 DEF Recorded, Start
<1>10. ASSUME NEW o \in Int, Start <= o, o < Start + L
       PROVE  Code(t, o) = Cmds(t, 1)[o - Start + 1] /\ o - Start + 1 \in 1..L
  <2>1. o < Ends(t, 1)
    BY <1>10, <1>5
  <2> QED
    BY <2>1, <1>10, <1>5 DEF Code, Start
<1>11. ASSUME NEW o \in Int, b = 2, Start + L <= o, o < Ends(t, b)
       PROVE  Code(t, o) = Cmds(t, b)[o - Begins(t, b) + 1] /\ o - Begins(t, b) + 1 \in 1..Len(Cmds(t, b))
  <2>1. ~(o < Ends(t, 1))
    BY <1>11, <1>5 DEF Start
  <2>2. Code(t, o) = Cmds(t, 2)[o - (Start + L) + 1]
    BY <2>1, <1>5, <1>11 DEF Code, Start
  <2>3. Begins(t, b) = Start + L
    BY <1>11, <1>7
  <2>4. Code(t, o) = Cmds(t, b)[o - Begins(t, b) + 1]
    BY <2>2, <2>3, <1>11
  <2>5. Ends(t, b) = Begins(t, b) + Len(Cmds(t, b)) /\ Len(Cmds(t, b)) \in Nat /\ Begins(t, b) \in Nat
    BY Layout
  <2> QED
    BY <2>4, <2>5, <2>3, <1>11
<1>12. CASE b = 1
  <2>1. Begins(t, b) = Start /\ Ends(t, b) = Start + L /\ Cmds(t, b) = Cmds(t, 1)
    BY <1>12, <1>5 DEF Begins
  <2>2. \A o \in Start..(Ends(t, b) - 1) : o \in Int /\ Start <= o /\ o < Start + L
    BY <2>1, <1>5 DEF Start
  <2>3. \A o \in Start..(Ends(t, b) - 1) : Code(t, o) = Cmds(t, 1)[o - Start + 1] /\ o - Start + 1 \in 1..L
    BY <2>2, <1>10
  <2>4. \A i \in 1..L : Cmds(t, 1)[i] \in CommandsOf(t)
    BY <1>2, <1>4
  <2> QED
    BY <2>1, <2>3, <2>4, <1>3, <1>9
<1>13. CASE b = 2
  <2>1. Begins(t, b) = Start + L /\ Begins(t, b) \in Nat /\ Ends(t, b) \in Nat
    BY <1>13, <1>7, <1>6, Layout
  <2>2. ASSUME NEW o \in Begins(t, b)..(Ends(t, b) - 1)
        PROVE  Code(t, o) = Cmds(t, b)[o - Begins(t, b) + 1] /\ o - Begins(t, b) + 1 \in 1..Len(Cmds(t, b))
    BY <2>1, <1>11, <1>13 DEF Start
  <2>3. ASSUME NEW o \in Start..(Ends(t, b) - 1)
        PROVE  Code(t, o) \in CommandsOf(t)
    <3>1. CASE o < Start + L
      <4>1. Code(t, o) = Cmds(t, 1)[o - Start + 1] /\ o - Start + 1 \in 1..L
        BY <3>1, <1>10 DEF Start
      <4> QED
        BY <4>1, <1>2, <1>4
    <3>2. CASE ~(o < Start + L)
      <4>1. o \in Begins(t, b)..(Ends(t, b) - 1)
        BY <3>2, <2>1, <1>5 DEF Start
      <4> QED
        BY <4>1, <2>2, <1>4
    <3> QED
      BY <3>1, <3>2
  <2> QED
    BY <2>2, <2>3, <1>3, <1>9
<1> QED
  BY <1>1, <1>12, <1>13

\* A command a test records is one for the RSX: it jumps within the buffer, its
\* reference is one of the tests', and the word it releases holds two digits.
LEMMA EveryCommand ==
  ASSUME NEW c \in Commands
  PROVE  /\ c.op \in Jumps => c.arg \in Offsets
         /\ c.op = "ref" => c.arg \in 0..4
         /\ c.op \in Releases => c.arg.value \in 0..Ones
<1>1. CASE c \in {Ret, Nop, Jmp(Start), Invalid}
  BY <1>1 DEF Ret, Nop, Jmp, Invalid, Cmd, Jumps, Releases, Offsets, Start, Longest
<1>2. ASSUME NEW t \in Tests, c \in CommandsOf(t)
      PROVE  \E end \in Offsets : Sound(c, end)
  <2>1. PICK b \in DOMAIN Batches(t) : c \in {Cmds(t, b)[i] : i \in DOMAIN Cmds(t, b)}
    BY <1>2 DEF CommandsOf, Batches, Cmds
  <2>2. PICK i \in 1..Len(Cmds(t, b)) : c = Cmds(t, b)[i]
    BY <2>1, Layout
  <2> DEFINE o == Begins(t, b) + i - 1
  <2>3. /\ o \in Begins(t, b)..(Ends(t, b) - 1) /\ o \in Start..(Ends(t, b) - 1)
        /\ o - Begins(t, b) + 1 = i
    BY Layout DEF Start
  <2>4. c = Code(t, o) /\ Sound(Code(t, o), Ends(t, b))
    BY <2>2, <2>3, Listing
  <2> QED
    BY <2>4, Layout
<1>3. CASE c \notin {Ret, Nop, Jmp(Start), Invalid}
  <2>1. PICK t \in Tests : c \in CommandsOf(t)
    BY <1>3 DEF Commands
  <2>2. PICK end \in Offsets : Sound(c, end)
    BY <1>2, <2>1
  <2> QED
    BY <2>2 DEF Sound, Offsets, Reset, Start, Longest
<1> QED
  BY <1>1, <1>3

\* The commands of a test and of the boot are among them.
LEMMA SomeCommands ==
  /\ \A t \in Tests : CommandsOf(t) \subseteq Commands
  /\ {Ret, Nop, Jmp(Start), Invalid} \subseteq Commands
BY DEF Commands

\* Which batches there are; the first of two is one command, and is waited for.
LEMMA TwoBatches ==
  ASSUME NEW t \in Tests, NEW b \in DOMAIN Batches(t), b < Len(Batches(t))
  PROVE  /\ b = 1 /\ Len(Batches(t)) = 2 /\ b + 1 \in DOMAIN Batches(t)
         /\ Ends(t, b) = Start + 1 /\ Begins(t, b + 1) = Ends(t, b)
         /\ Batches(t)[b].await \notin {Forever, Slept, Unset}
         /\ t \notin {"fifo_put_masking", "fifo_semaphores_data"}
<1>1. ProgramOK(t)
  BY AllUnderstood
<1>2. Len(Batches(t)) \in {1, 2} /\ DOMAIN Batches(t) = 1..Len(Batches(t))
  BY <1>1 DEF ProgramOK
<1>3. b = 1 /\ Len(Batches(t)) = 2 /\ b + 1 \in DOMAIN Batches(t)
  BY <1>2
<1>4. /\ Len(Cmds(t, 1)) = 1 /\ Batches(t)[1].await \notin {Forever, Slept, Unset}
      /\ t \notin {"fifo_put_masking", "fifo_semaphores_data"}
  BY <1>1, <1>3 DEF ProgramOK
<1>5. Ends(t, b) = Start + 1
  BY <1>3, <1>4 DEF Ends, Begins, Cmds, Start
<1>6. Begins(t, b + 1) = Start + 1
  BY <1>3, <1>4 DEF Begins, Cmds, Start
<1> QED
  BY <1>3, <1>4, <1>5, <1>6
-----------------------------------------------------------------------------
(* The invariant. *)

Booting == {"wait_for_fifo", "jump"}
Recording == {"set labels", "record", "flush"}
Masking == {"store", "reload", "store again", "reload again"}
Running == {"wait", "finished"} \cup Masking
Ended == {"crash", "for ever"}

\* The types, with what the pipe and the frame are made of.
RsxTypes ==
  /\ io \in [Offsets -> Commands] /\ put \in Offsets /\ get \in Offsets /\ link \in Offsets
  /\ halted \in BOOLEAN /\ ref \in {Unset} \cup 0..4 /\ label \in [Words -> 0..Ones]
  /\ pipe \in Seq({c \in Commands : c.op \in Methods}) /\ Len(pipe) <= PipeDepth
  /\ frame \in Seq({c.arg : c \in {d \in Commands : d.op = "draw"}}) /\ Len(frame) <= FrameDepth
  /\ flip \in {"done", "released", "queued"}
MainTypes ==
  /\ test \in Tests /\ batch \in DOMAIN Batches(test)
  /\ pc \in Booting \cup Recording \cup Running \cup Ended
  /\ low \in BOOLEAN
  /\ seen \in {<<>>, <<FALSE>>, <<FALSE, TRUE>>} \cup [Words -> 0..Ones]
StoreTypes == DOMAIN stores \subseteq Offsets /\ stores \in [DOMAIN stores -> Commands]
Types == RsxTypes /\ MainTypes /\ StoreTypes

\* What an offset will hold when the stores have arrived.
Will(o) == IF o \in DOMAIN stores THEN stores[o] ELSE io[o]

\* Main records only while the RSX has nothing to read, and flushes when all of
\* its stores have arrived.
Control ==
  /\ pc \in Booting => /\ batch = 1 /\ put = Boot /\ get \in {1, Boot} /\ link = NoLink /\ ref = Unset
                       /\ pc = "jump" => get = Boot
                       /\ io = [o \in Offsets |-> IF o = Reset THEN Ret ELSE Nop]
  /\ pc \in Recording => /\ get = put
                         /\ IF batch = 1 THEN get = Boot /\ link = NoLink /\ ref = Unset
                                         ELSE put = Begins(test, batch)
  /\ pc = "set labels" => batch = 1
  /\ pc \notin Recording => stores = <<>>
  /\ pc \in Running => put = IF test = "fifo_put_masking" THEN pos - 1 ELSE pos
  /\ pos = IF pc \in Booting \cup {"set labels", "record"} THEN Begins(test, batch) ELSE Ends(test, batch)

\* What is recorded is in memory, or on its way there; after the crash there is
\* nothing but the reset code.
Memory ==
  /\ DOMAIN stores \subseteq {Boot} \cup Start..(pos - 1)
  /\ pc \in Recording \cup Running => /\ io[Reset] = Ret /\ io[1] = Nop /\ Will(Boot) = Jmp(Start)
                                      /\ \A o \in Start..(pos - 1) : Will(o) = Code(test, o)
  /\ pc \in Ended => \A o \in Offsets : \/ io[o] = Invalid
                                        \/ /\ pc # "crash" /\ o < Start
                                           /\ io[o] \in {Ret, Nop, Jmp(Start)}

\* The RSX is in the reset code, at the jump, or in what is recorded.
Reading == /\ pc \in Recording \cup Running => /\ get \in {Reset, Boot} \cup Start..put
                                              /\ link \in {NoLink} \cup Start..put
           /\ pc = "crash" /\ get # put => get < pos

\* A first batch of two is done with when its reference is read, and the bit of
\* put is masked before anything is.
References == /\ pc \in Running /\ batch < Len(Batches(test)) /\ ref # Unset => get = put
              /\ low => test = "fifo_put_masking" /\ pc \in Running
              /\ low /\ pc = "wait" => ref = Unset
              /\ pc \in Masking => test = "fifo_put_masking" /\ seen = <<FALSE>>

IInv == Types /\ Control /\ Memory /\ Reading /\ References

-----------------------------------------------------------------------------
(* The invariant is inductive. *)

\* The batch that main is at.
LEMMA Here ==
  ASSUME Types
  PROVE  /\ test \in Tests /\ batch \in DOMAIN Batches(test) /\ batch \in Nat
         /\ Program.batches = Batches(test) /\ ThisBatch.cmds = Cmds(test, batch)
         /\ ThisBatch.await = Batches(test)[batch].await
         /\ Begins(test, batch) \in Nat /\ Ends(test, batch) \in Offsets
         /\ Start <= Begins(test, batch) /\ Begins(test, batch) < Ends(test, batch)
         /\ Ends(test, batch) = Begins(test, batch) + Len(Cmds(test, batch))
         /\ batch = 1 => Begins(test, batch) = Start
<1>1. test \in Tests /\ batch \in DOMAIN Batches(test)
  BY DEF Types, MainTypes
<1> QED
  BY <1>1, Layout DEF Program, ThisBatch, Batches, Cmds

\* The first states.
LEMMA Initially == Init => IInv
<1> SUFFICES ASSUME Init PROVE IInv
  OBVIOUS
<1> USE DEF Start, Boot, Reset, NoLink, Unset, Offsets, Longest
<1>1. DOMAIN Batches(test) = 1..Len(Batches(test)) /\ Len(Batches(test)) \in {1, 2}
  BY AllUnderstood DEF Init, ProgramOK
<1>2. Types
  <2>1. io \in [Offsets -> Commands]
    BY SomeCommands DEF Init
  <2>2. pipe \in Seq({c \in Commands : c.op \in Methods}) /\ Len(pipe) <= PipeDepth
    BY GcmTestsAssumption DEF Init
  <2>3. frame \in Seq({c.arg : c \in {d \in Commands : d.op = "draw"}}) /\ Len(frame) <= FrameDepth
    BY DEF Init, FrameDepth
  <2>4. label \in [Words -> 0..Ones]
    BY DEF Init, Ones, Untouched
  <2>5. batch \in DOMAIN Batches(test)
    BY <1>1 DEF Init
  <2>6. DOMAIN stores \subseteq Offsets /\ stores \in [DOMAIN stores -> Commands]
    BY DEF Init
  <2>7. seen \in {<<>>, <<FALSE>>, <<FALSE, TRUE>>} \cup [Words -> 0..Ones]
    BY DEF Init
  <2>8. put \in Offsets /\ get \in Offsets /\ link \in Offsets /\ ref \in {Unset} \cup 0..4
    BY DEF Init
  <2>9. /\ flip \in {"done", "released", "queued"} /\ test \in Tests /\ low \in BOOLEAN /\ halted \in BOOLEAN
        /\ pc \in Booting \cup Recording \cup Running \cup Ended
    BY DEF Init, Booting
  <2> QED
    BY <2>1, <2>2, <2>3, <2>4, <2>5, <2>6, <2>7, <2>8, <2>9 DEF Types, RsxTypes, MainTypes, StoreTypes
<1>3. Control
  <2>1. Begins(test, batch) = Start
    BY DEF Init, Begins
  <2> QED
    BY <2>1 DEF Init, Control, Booting, Recording, Running, Masking
<1> QED
  BY <1>2, <1>3 DEF Init, IInv, Memory, Reading, References, Booting, Recording, Running, Masking, Ended

\* Before it records: main waits for the boot, has the RSX jump to its buffer,
\* and one test sets the labels.
LEMMA BootSteps ==
  ASSUME IInv, Wait_for_fifo \/ PlaceJump \/ SetLabels
  PROVE  IInv'
<1> USE DEF IInv, Types, Start, Boot, Reset, NoLink, Booting, Recording, Running, Masking, Ended
<1>1. CASE Wait_for_fifo
  <2>1. Types'
    BY <1>1 DEF Wait_for_fifo, RsxTypes, MainTypes, StoreTypes, rsx
  <2>2. Control'
    BY <1>1 DEF Wait_for_fifo, Control, MainTypes, rsx
  <2> QED
    BY <1>1, <2>1, <2>2 DEF Wait_for_fifo, Memory, Reading, References, Will, rsx
<1>2. CASE PlaceJump
  <2>1. /\ get = Boot /\ put = Boot /\ batch = 1 /\ link = NoLink /\ ref = Unset /\ stores = <<>>
        /\ pos = Begins(test, batch) /\ pc' \in {"set labels", "record"}
    BY <1>2 DEF PlaceJump, Control
  <2>2. DOMAIN stores' = {Boot} /\ stores'[Boot] = Jmp(Start) /\ stores' \in [{Boot} -> {Jmp(Start)}]
    <3>1. DOMAIN stores = {}
      <4>1. stores = <<>>
        BY <2>1
      <4> QED
        BY <4>1
    <3>2. stores' = [o \in {Boot} |-> Jmp(Start)]
      BY <1>2, <2>1, <3>1 DEF PlaceJump, Store
    <3> QED
      BY <3>2
  <2>3. Begins(test, batch) = Start
    BY <2>1, Here
  <2>4. Types'
    <3>1. StoreTypes'
      BY <2>2, SomeCommands DEF StoreTypes, Offsets, Longest
    <3> QED
      BY <1>2, <3>1 DEF PlaceJump, RsxTypes, MainTypes, rsx
  <2>5. Control'
    BY <1>2, <2>1 DEF PlaceJump, Control, rsx
  <2>6. Memory'
    <3>1. io' = io /\ pos' = Start
      BY <1>2, <2>1, <2>3 DEF PlaceJump, rsx
    <3>2. Will(Boot)' = Jmp(Start)
      BY <2>2 DEF Will
    <3>3. io[Reset] = Ret /\ io[1] = Nop
      <4>1. 0 \in Offsets /\ 1 \in Offsets
        BY DEF Offsets, Longest
      <4>2. io = [o \in Offsets |-> IF o = Reset THEN Ret ELSE Nop]
        BY <1>2 DEF PlaceJump, Control
      <4> QED
        BY <4>1, <4>2
    <3>4. DOMAIN stores' = {Boot} /\ Start..(pos' - 1) = {}
      BY <2>2, <3>1
    <3>5. pc' \notin Ended
      BY <2>1
    <3> QED
      BY <3>1, <3>2, <3>3, <3>4, <3>5 DEF Memory
  <2>7. Reading' /\ References'
    BY <1>2, <2>1 DEF PlaceJump, Reading, References, rsx
  <2> QED
    BY <2>4, <2>5, <2>6, <2>7
<1>3. CASE SetLabels
  <2>1. Types'
    <3>1. label' \in [Words -> 0..Ones]
      <4>1. Cleared \in [Words -> 0..Ones]
        BY DEF Cleared, Ones, Word
      <4> QED
        BY <4>1, <1>3 DEF SetLabels
    <3> QED
      BY <1>3, <3>1 DEF SetLabels, RsxTypes, MainTypes, StoreTypes
  <2>2. Control'
    BY <1>3 DEF SetLabels, Control
  <2> QED
    BY <1>3, <2>1, <2>2 DEF SetLabels, Memory, Reading, References, Will
<1> QED
  BY <1>1, <1>2, <1>3

\* Main records a batch and flushes it.
LEMMA RecordSteps ==
  ASSUME IInv, Record \/ flush \/ StoreUnaligned
  PROVE  IInv'
<1> USE DEF IInv, Types, Start, Boot, Reset, NoLink, Booting, Recording, Running, Masking, Ended
<1>1. CASE Record
  <2> DEFINE n == Len(Cmds(test, batch))
  <2>1. /\ pos = Begins(test, batch) /\ pos \in Nat /\ Start <= pos /\ pos + n = Ends(test, batch) /\ pos < pos + n
        /\ pos + n \in Offsets /\ ThisBatch.cmds = Cmds(test, batch) /\ n \in Nat
    BY <1>1, Here, Layout DEF Record, Control
  <2>2. \A o \in pos..(pos + n - 1) : Cmds(test, batch)[o - pos + 1] = Code(test, o) /\ Code(test, o) \in Commands
    BY <2>1, Here, Listing, SomeCommands
  <2>3. /\ DOMAIN stores' = (pos..(pos + n - 1)) \cup DOMAIN stores
        /\ \A o \in pos..(pos + n - 1) : stores'[o] = Code(test, o)
        /\ \A o \in DOMAIN stores \ (pos..(pos + n - 1)) : stores'[o] = stores[o]
        /\ stores' = [o \in DOMAIN stores' |-> stores'[o]]
    BY <1>1, <2>1, <2>2 DEF Record, Store
  <2>4. pos' = pos + n /\ pc' = "flush" /\ UNCHANGED <<rsx, test, batch, low, seen>>
    BY <1>1, <2>1 DEF Record
  <2> HIDE DEF n
  <2>5. Types'
    <3>1. StoreTypes'
      <4>1. DOMAIN stores' \subseteq Offsets
        BY <2>1, <2>3 DEF StoreTypes, Offsets, Longest
      <4>2. \A o \in DOMAIN stores' : stores'[o] \in Commands
        BY <2>2, <2>3 DEF StoreTypes
      <4> QED
        BY <4>1, <4>2, <2>3 DEF StoreTypes
    <3> QED
      BY <3>1, <2>4 DEF RsxTypes, MainTypes, rsx
  <2>6. Control'
    BY <1>1, <2>1, <2>4 DEF Record, Control, rsx
  <2>7. Memory'
    <3>1. DOMAIN stores' \subseteq {Boot} \cup Start..(pos' - 1)
      <4>1. DOMAIN stores \subseteq {Boot} \cup Start..(pos - 1)
        BY DEF Memory
      <4> QED
        BY <4>1, <2>1, <2>3, <2>4
    <3>2. io' = io /\ Will(Boot)' = Will(Boot)
      BY <2>1, <2>3, <2>4 DEF Will, rsx
    <3>3. ASSUME NEW o \in Start..(pos' - 1)
          PROVE  Will(o)' = Code(test', o)
      <4>1. CASE o \in pos..(pos + n - 1)
        BY <4>1, <2>3, <2>4 DEF Will
      <4>2. CASE o \notin pos..(pos + n - 1)
        <5>1. o \in Start..(pos - 1) /\ Will(o)' = Will(o)
          BY <4>2, <2>1, <2>3, <2>4 DEF Will, rsx
        <5> QED
          BY <5>1, <1>1, <2>4 DEF Memory, Record
      <4> QED
        BY <4>1, <4>2
    <3> QED
      BY <1>1, <2>4, <3>1, <3>2, <3>3 DEF Memory, Record
  <2>8. Reading' /\ References'
    BY <1>1, <2>4 DEF Record, Reading, References, rsx
  <2> QED
    BY <2>5, <2>6, <2>7, <2>8
<1> DEFINE new == IF test = "fifo_put_masking" THEN pos - 1 ELSE pos
<1>2. CASE flush \/ StoreUnaligned
  <2>1. /\ pos = Ends(test, batch) /\ pos \in Offsets /\ pos \in Nat /\ Start <= pos - 1
        /\ get = put /\ (batch = 1 => get = Boot /\ link = NoLink /\ ref = Unset)
        /\ (batch < Len(Batches(test)) => batch = 1)
    <3>1. batch < Len(Batches(test)) => batch = 1
      BY Here, TwoBatches
    <3>2. pos = Ends(test, batch) /\ get = put /\ (batch = 1 => get = Boot /\ link = NoLink /\ ref = Unset)
      BY <1>2 DEF flush, StoreUnaligned, Control
    <3>3. pos \in Offsets /\ pos \in Nat /\ Start <= pos - 1
      BY <3>2, Here DEF Offsets, Longest
    <3> QED
      BY <3>1, <3>2, <3>3
  <2>2. /\ put' = new /\ pc' = "wait" /\ stores = <<>> /\ (low' => test = "fifo_put_masking")
        /\ UNCHANGED <<io, get, link, halted, ref, label, pipe, frame, flip, test, batch, pos, stores, seen>>
    <3>1. CASE flush
      BY <3>1 DEF flush, References
    <3>2. CASE StoreUnaligned
      BY <3>2 DEF StoreUnaligned, store_put
    <3> QED
      BY <1>2, <3>1, <3>2
  <2>3. Types'
    <3>1. put' \in Offsets
      BY <2>1, <2>2 DEF Offsets, Longest
    <3>2. low' \in BOOLEAN
      BY <1>2 DEF flush, StoreUnaligned, store_put, MainTypes
    <3> QED
      BY <2>2, <3>1, <3>2 DEF RsxTypes, MainTypes, StoreTypes
  <2>4. Control'
    BY <1>2, <2>1, <2>2 DEF Control, flush, StoreUnaligned
  <2>5. Memory'
    BY <1>2, <2>2 DEF Memory, flush, StoreUnaligned, Will
  <2>6. Reading'
    <3>1. CASE batch = 1
      BY <3>1, <2>1, <2>2 DEF Reading
    <3>2. CASE batch # 1
      <4>1. put = Begins(test, batch) /\ put \in Nat /\ Start <= put /\ put <= put' /\ put' \in Nat
        <5>1. put = Begins(test, batch)
          BY <3>2, <1>2 DEF Control, flush, StoreUnaligned
        <5> QED
          BY <5>1, <2>1, <2>2, Here
      <4>2. link \in {NoLink} \cup Start..put
        BY <1>2 DEF Reading, flush, StoreUnaligned
      <4> QED
        <5>1. get' \in Start..put' /\ link' \in {NoLink} \cup Start..put'
          BY <4>1, <4>2, <2>1, <2>2
        <5>2. pc' = "wait"
          BY <2>2
        <5> QED
          BY <5>1, <5>2 DEF Reading
    <3> QED
      BY <3>1, <3>2
  <2>7. References'
    <3>1. low' => ref = Unset
      <4>1. CASE batch < Len(Batches(test))
        BY <4>1, <2>1
      <4>2. CASE ~(batch < Len(Batches(test)))
        BY <4>2, <2>1, <2>2, Unaligned, Here DEF UnalignedOK
      <4> QED
        BY <4>1, <4>2
    <3> QED
      BY <2>1, <2>2, <3>1 DEF References
  <2> QED
    BY <2>3, <2>4, <2>5, <2>6, <2>7
<1> QED
  BY <1>1, <1>2

\* Main has seen what it waits for: it records the next batch, finishes, or takes
\* the memory from the RSX.
LEMMA WaitSteps ==
  ASSUME IInv, NextBatch \/ Finish \/ Unmap \/ Crash
  PROVE  IInv'
<1> USE DEF IInv, Types, Start, Boot, Reset, NoLink, Booting, Recording, Running, Masking, Ended
<1>1. CASE NextBatch
  <2>1. /\ batch = 1 /\ batch + 1 \in DOMAIN Batches(test) /\ Begins(test, batch + 1) = Ends(test, batch)
        /\ Batches(test)[batch].await \notin {Forever, Slept, Unset}
        /\ test \notin {"fifo_put_masking", "fifo_semaphores_data"} /\ batch < Len(Batches(test))
    BY <1>1, Here, TwoBatches DEF NextBatch
  <2>2. ref # Unset
    BY <1>1, <2>1, Here DEF NextBatch, Awaited
  <2>3. get = put /\ put = pos /\ pos = Ends(test, batch) /\ stores = <<>> /\ ~low
    BY <1>1, <2>1, <2>2 DEF NextBatch, References, Control
  <2>4. batch' = batch + 1 /\ pc' = "record" /\ UNCHANGED <<rsx, test, pos, stores, low, seen>>
    BY <1>1 DEF NextBatch
  <2>5. Types'
    BY <2>1, <2>4 DEF RsxTypes, MainTypes, StoreTypes, rsx
  <2>6. Control'
    <3>1. put' = Begins(test', batch') /\ pos' = Begins(test', batch') /\ batch' # 1
      BY <2>1, <2>3, <2>4 DEF rsx
    <3> QED
      BY <3>1, <2>3, <2>4 DEF Control, rsx
  <2>7. Memory'
    BY <1>1, <2>4 DEF NextBatch, Memory, Will, rsx
  <2>8. Reading' /\ References'
    BY <1>1, <2>3, <2>4 DEF NextBatch, Reading, References, rsx
  <2> QED
    BY <2>5, <2>6, <2>7, <2>8
<1>2. CASE Finish
  <2>1. Types'
    <3>1. seen' \in {<<>>, <<FALSE>>, <<FALSE, TRUE>>} \cup [Words -> 0..Ones]
      BY <1>2 DEF Finish, MainTypes, RsxTypes
    <3> QED
      BY <1>2, <3>1 DEF Finish, RsxTypes, MainTypes, StoreTypes, rsx
  <2> QED
    BY <1>2, <2>1 DEF Finish, Control, Memory, Reading, References, Will, rsx
<1>3. CASE Unmap
  <2>1. /\ io' = [o \in Offsets |-> IF o \in Program.unmaps THEN Invalid ELSE io[o]]
        /\ pc' = IF Program.unmaps = Offsets THEN "crash" ELSE "for ever"
        /\ UNCHANGED <<put, get, link, halted, ref, label, pipe, frame, flip, test, batch, pos, stores, low, seen>>
        /\ pc = "wait" /\ Program.unmaps # {}
    BY <1>3 DEF Unmap
  <2>2. Program.unmaps \in {Offsets, Offsets \ FirstMb}
    BY <2>1, AllUnderstood, Here DEF ProgramOK, Program
  <2>3. test # "fifo_put_masking"
    BY <2>1, Unaligned DEF UnalignedOK, Program
  <2>4. stores = <<>> /\ put = pos /\ pos = Ends(test, batch) /\ ~low
    BY <2>1, <2>3 DEF Control, References
  <2>5. Types'
    <3>1. io' \in [Offsets -> Commands]
      BY <2>1, SomeCommands DEF RsxTypes
    <3> QED
      BY <2>1, <3>1 DEF RsxTypes, MainTypes, StoreTypes
  <2>6. Control'
    BY <2>1, <2>4 DEF Control
  <2>7. Memory'
    <3>1. io[0] = Ret /\ io[1] = Nop /\ io[2] = Jmp(Start)
      <4>1. DOMAIN stores = {}
        BY <2>4
      <4> QED
        BY <4>1, <2>1 DEF Memory, Will
    <3>2. ASSUME NEW o \in Offsets
          PROVE  io'[o] = Invalid \/ (pc' # "crash" /\ o < Start /\ io'[o] \in {Ret, Nop, Jmp(Start)})
      <4>1. CASE Program.unmaps = Offsets
        BY <4>1, <2>1
      <4>2. CASE Program.unmaps = Offsets \ FirstMb
        <5>1. pc' = "for ever"
          <6>1. 0 \in Offsets /\ 0 \notin Offsets \ FirstMb
            BY DEF Offsets, FirstMb, Longest
          <6>2. Program.unmaps # Offsets
            BY <4>2, <6>1
          <6> QED
            BY <6>2, <2>1
        <5>2. CASE o \in FirstMb
          <6>1. io'[o] = io[o]
            BY <5>2, <4>2, <2>1
          <6>2. o \in {0, 1, 2}
            BY <5>2 DEF FirstMb
          <6>3. io[o] \in {Ret, Nop, Jmp(Start)}
            BY <6>2, <3>1
          <6>4. o < Start
            BY <6>2
          <6> QED
            BY <6>1, <6>3, <6>4, <5>1, Zenon
        <5>3. CASE o \notin FirstMb
          BY <5>3, <4>2, <2>1
        <5> QED
          BY <5>2, <5>3
      <4> QED
        BY <4>1, <4>2, <2>2
    <3>3. DOMAIN stores' \subseteq {Boot} \cup Start..(pos' - 1)
      BY <2>1 DEF Memory
    <3> QED
      BY <2>1, <3>2, <3>3 DEF Memory
  <2>8. Reading'
    <3>1. get # put => get < pos
      <4>1. put = pos /\ pos \in Nat /\ Start < pos
        BY <2>4, Here DEF Offsets, Longest
      <4>2. get \in {Reset, Boot} \cup Start..put
        BY <2>1 DEF Reading
      <4> QED
        BY <4>1, <4>2
    <3> QED
      BY <2>1, <3>1 DEF Reading
  <2>9. References'
    BY <2>1, <2>4 DEF References
  <2> QED
    BY <2>5, <2>6, <2>7, <2>8, <2>9
<1>4. CASE Crash
  <2>1. Types'
    <3>1. put' \in Offsets
      <4>1. 0 \in Offsets
        BY DEF Offsets, Longest
      <4> QED
        BY <4>1, <1>4 DEF Crash
    <3> QED
      BY <1>4, <3>1 DEF Crash, RsxTypes, MainTypes, StoreTypes
  <2> QED
    BY <1>4, <2>1 DEF Crash, Control, Memory, Reading, References, Will
<1> QED
  BY <1>1, <1>2, <1>3, <1>4

\* What a sequence of one element becomes.
LEMMA AppendToOne ==
  ASSUME NEW a, NEW b
  PROVE  Append(<<a>>, b) = <<a, b>>
<1>1. Append(<<a>>, b) \in Seq({a, b}) /\ Len(Append(<<a>>, b)) = 2
  OBVIOUS
<1>2. <<a, b>> \in Seq({a, b}) /\ Len(<<a, b>>) = 2
  OBVIOUS
<1>3. \A i \in 1..2 : Append(<<a>>, b)[i] = <<a, b>>[i]
  OBVIOUS
<1> QED
  BY <1>1, <1>2, <1>3, SeqEqual

\* "fifo put masking": main looks for the bit it stores put with.
LEMMA MaskSteps ==
  ASSUME IInv, LoadOld \/ StoreOnce \/ SeeItMasked \/ StoreAgain \/ SeeItUnmasked \/ MissIt \/ MaskPut
  PROVE  IInv'
<1> USE DEF IInv, Types, Start, Boot, Reset, NoLink, Booting, Recording, Running, Masking, Ended
<1>1. CASE LoadOld
  <2>1. test = "fifo_put_masking" /\ pc = "wait"
    BY <1>1 DEF LoadOld
  <2>2. ref # Unset
    <3>1. batch = 1 /\ Batches(test)[1].await = 2
      BY <2>1, Here, Unaligned DEF UnalignedOK
    <3>2. ThisBatch.await = 2
      BY <3>1, Here
    <3> QED
      BY <1>1, <3>2 DEF LoadOld, Awaited, Forever, Slept, Unset
  <2>3. low = FALSE
    BY <2>1, <2>2 DEF References, MainTypes
  <2>4. seen' = <<FALSE>> /\ pc' = "store" /\ UNCHANGED <<rsx, test, batch, pos, stores, low>>
    BY <1>1, <2>3 DEF LoadOld
  <2>5. Types'
    BY <2>4 DEF RsxTypes, MainTypes, StoreTypes, rsx
  <2> QED
    BY <2>1, <2>3, <2>4, <2>5 DEF Control, Memory, Reading, References, Will, rsx
<1>2. CASE StoreOnce \/ StoreAgain
  <2>1. test = "fifo_put_masking" /\ put = pos - 1
    BY <1>2 DEF StoreOnce, StoreAgain, References, Control
  <2>2. /\ UNCHANGED <<io, put, get, link, halted, ref, label, pipe, frame, flip, test, batch, pos, stores, seen>>
        /\ low' = TRUE /\ pc' \in {"reload", "reload again"} /\ pc \in {"store", "store again"}
    BY <1>2, <2>1 DEF StoreOnce, StoreAgain, store_put
  <2>3. Types'
    BY <2>2 DEF RsxTypes, MainTypes, StoreTypes
  <2> QED
    BY <2>1, <2>2, <2>3 DEF Control, Memory, Reading, References, Will
<1>3. CASE SeeItMasked \/ MissIt
  <2>1. /\ UNCHANGED <<rsx, test, batch, pos, stores, low, seen>>
        /\ pc' = "store again" /\ pc \in {"reload", "reload again"}
    BY <1>3 DEF SeeItMasked, MissIt
  <2>2. Types'
    BY <2>1 DEF RsxTypes, MainTypes, StoreTypes, rsx
  <2> QED
    BY <2>1, <2>2 DEF Control, Memory, Reading, References, Will, rsx
<1>4. CASE SeeItUnmasked
  <2>1. seen = <<FALSE>> /\ low = TRUE
    BY <1>4 DEF SeeItUnmasked, References, MainTypes
  <2>2. /\ UNCHANGED <<rsx, test, batch, pos, stores, low>>
        /\ seen' = <<FALSE, TRUE>> /\ pc' = "finished" /\ pc = "reload again"
    <3>1. seen' = Append(seen, low)
      BY <1>4 DEF SeeItUnmasked
    <3>2. seen' = <<FALSE, TRUE>>
      BY <3>1, <2>1, AppendToOne, Zenon
    <3> QED
      BY <1>4, <3>2 DEF SeeItUnmasked
  <2>3. Types'
    BY <2>2 DEF RsxTypes, MainTypes, StoreTypes, rsx
  <2> QED
    BY <2>2, <2>3 DEF Control, Memory, Reading, References, Will, rsx
<1>5. CASE MaskPut
  <2>1. Types'
    BY <1>5 DEF MaskPut, RsxTypes, MainTypes, StoreTypes, rsx, main
  <2> QED
    BY <1>5, <2>1 DEF MaskPut, Control, Memory, Reading, References, Will, rsx, main
<1> QED
  BY <1>1, <1>2, <1>3, <1>4, <1>5

\* A store arrives: an offset holds what it will.
LEMMA StoreSteps ==
  ASSUME IInv, StoreArrives
  PROVE  IInv'
<1> USE DEF IInv, Types, Start, Boot, Reset, NoLink, Booting, Recording, Running, Masking, Ended
<1>1. PICK o \in DOMAIN stores :
        /\ io' = [io EXCEPT ![o] = stores[o]]
        /\ stores' = [p \in DOMAIN stores \ {o} |-> stores[p]]
        /\ UNCHANGED <<put, get, link, halted, ref, label, pipe, frame, flip, main, low>>
  BY DEF StoreArrives
<1>2. pc \in Recording
  <2>1. stores # <<>>
    <3>1. ASSUME stores = <<>> PROVE DOMAIN stores = {}
      BY <3>1
    <3> QED
      BY <3>1
  <2> QED
    BY <2>1 DEF Control
<1>3. o \in Offsets /\ stores[o] \in Commands /\ o \in {Boot} \cup Start..(pos - 1)
  BY DEF StoreTypes, Memory
<1>4. \A p \in Offsets : Will(p)' = Will(p)
  BY <1>1, <1>3 DEF Will, RsxTypes
<1>5. Types'
  <2>1. io' \in [Offsets -> Commands]
    BY <1>1, <1>3 DEF RsxTypes
  <2>2. StoreTypes'
    BY <1>1 DEF StoreTypes
  <2> QED
    BY <1>1, <2>1, <2>2 DEF RsxTypes, MainTypes, main
<1>6. Control'
  BY <1>1, <1>2 DEF Control, main
<1>7. Memory'
  <2>1. pos = pos' /\ pc' = pc /\ test' = test
    BY <1>1 DEF main
  <2>2. DOMAIN stores' \subseteq {Boot} \cup Start..(pos' - 1)
    BY <1>1, <2>1 DEF Memory
  <2>3. io'[Reset] = Ret /\ io'[1] = Nop
    <3>1. o # Reset /\ o # 1
      BY <1>3
    <3>2. io[Reset] = Ret /\ io[1] = Nop
      BY <1>2 DEF Memory
    <3>3. io \in [Offsets -> Commands] /\ Reset \in Offsets /\ 1 \in Offsets
      BY DEF RsxTypes, Offsets, Longest
    <3> QED
      BY <1>1, <3>1, <3>2, <3>3
  <2>4. Will(Boot)' = Jmp(Start) /\ \A p \in Start..(pos' - 1) : Will(p)' = Code(test', p)
    <3>1. pos \in Nat /\ pos - 1 <= Start + Longest
      <4>1. pos \in {Begins(test, batch), Ends(test, batch)}
        BY <1>2 DEF Control
      <4> QED
        BY <4>1, Here DEF Offsets, Longest
    <3>2. Boot \in Offsets /\ \A p \in Start..(pos - 1) : p \in Offsets
      BY <3>1 DEF Offsets, Longest
    <3> QED
      BY <3>2, <2>1, <1>2, <1>4 DEF Memory
  <2> QED
    BY <1>2, <2>1, <2>2, <2>3, <2>4 DEF Memory
<1>8. Reading' /\ References'
  BY <1>1, <1>2 DEF Reading, References, main
<1> QED
  BY <1>5, <1>6, <1>7, <1>8

\* While the test runs all that it recorded has arrived, and put is behind it.
LEMMA RunningPut ==
  ASSUME IInv, pc \in Running
  PROVE  /\ stores = <<>> /\ put = IF test = "fifo_put_masking" THEN pos - 1 ELSE pos
         /\ pos = Ends(test, batch) /\ pos \in Nat /\ put \in Nat /\ Start <= put
<1>1. pc \notin Recording /\ pc \notin Booting \cup {"set labels", "record"}
  BY DEF Running, Recording, Masking, Booting
<1>2. pos = Ends(test, batch)
  BY <1>1 DEF IInv, Control
<1>3. pos \in Nat /\ Start < pos
  BY <1>2, Here DEF IInv, Offsets, Longest, Start
<1>4. stores = <<>> /\ put = IF test = "fifo_put_masking" THEN pos - 1 ELSE pos
  BY <1>1 DEF IInv, Control
<1> QED
  BY <1>2, <1>3, <1>4 DEF Start

\* What the RSX can find where it is.
LEMMA WhatIsRead ==
  ASSUME IInv, get # put
  PROVE  /\ pc \notin Recording
         /\ pc \in Booting => get = 1 /\ io[get] = Nop
         /\ pc \in Running => \/ get = Reset /\ io[get] = Ret
                              \/ get = Boot /\ io[get] = Jmp(Start)
                              \/ /\ get \in Start..(put - 1) /\ get \in Recorded(test)
                                 /\ io[get] = Code(test, get) /\ Sound(io[get], put)
         /\ pc \in Ended => \/ io[get] = Invalid
                            \/ pc # "crash" /\ get < Start /\ io[get] \in {Ret, Nop, Jmp(Start)}
<1> USE DEF IInv, Types, Start, Boot, Reset, NoLink
<1>1. pc \notin Recording
  BY DEF Control
<1>2. ASSUME pc \in Booting PROVE get = 1 /\ io[get] = Nop
  <2>1. get = 1 /\ io = [o \in Offsets |-> IF o = Reset THEN Ret ELSE Nop]
    BY <1>2 DEF Control
  <2>2. 1 \in Offsets
    BY DEF Offsets, Longest
  <2> QED
    BY <2>1, <2>2
<1>3. ASSUME pc \in Ended
      PROVE  \/ io[get] = Invalid
             \/ pc # "crash" /\ get < Start /\ io[get] \in {Ret, Nop, Jmp(Start)}
  BY <1>3 DEF Memory, RsxTypes
<1>4. ASSUME pc \in Running
      PROVE  \/ get = Reset /\ io[get] = Ret
             \/ get = Boot /\ io[get] = Jmp(Start)
             \/ /\ get \in Start..(put - 1) /\ get \in Recorded(test)
                /\ io[get] = Code(test, get) /\ Sound(io[get], put)
  <2>1. /\ stores = <<>> /\ put = IF test = "fifo_put_masking" THEN pos - 1 ELSE pos
        /\ pos = Ends(test, batch) /\ pos \in Nat
    BY <1>4, RunningPut
  <2>2. DOMAIN stores = {}
    BY <2>1
  <2>3. io[Reset] = Ret /\ io[Boot] = Jmp(Start) /\ \A o \in Start..(pos - 1) : io[o] = Code(test, o)
    BY <1>4, <2>2 DEF Memory, Will
  <2>4. get \in {Reset, Boot} \cup Start..put
    BY <1>4 DEF Reading
  <2>5. CASE get \notin {Reset, Boot}
    <3>1. get \in Start..(put - 1) /\ get \in Start..(pos - 1)
      BY <2>1, <2>4, <2>5
    <3>2. io[get] = Code(test, get)
      BY <2>3, <3>1
    <3>3. get \in Recorded(test) /\ Sound(Code(test, get), pos)
      BY <2>1, <3>1, Here, Listing
    <3>4. CASE test = "fifo_put_masking"
      <4>1. Code(test, get).op \in Jumps => Code(test, get).arg = Reset
        <5>1. batch = 1
          BY <3>4, Here, Unaligned DEF UnalignedOK
        <5>2. Ends(test, batch) = Ends(test, 1)
          BY <5>1
        <5> QED
          BY <2>1, <3>1, <3>4, <5>2, Unaligned DEF UnalignedOK
      <4> QED
        BY <3>1, <3>2, <3>3, <4>1 DEF Sound
    <3>5. CASE test # "fifo_put_masking"
      BY <2>1, <3>1, <3>2, <3>3, <3>5
    <3> QED
      BY <3>4, <3>5
  <2> QED
    BY <2>3, <2>4, <2>5
<1> QED
  BY <1>1, <1>2, <1>3, <1>4

\* A command that is no jump, no return and no error is followed by another.
LEMMA ReadOn ==
  ASSUME IInv, get # put, io[get].op \notin {"jmp", "ret", "invalid"}
  PROVE  /\ get + 1 \in Offsets /\ io[get] \in Commands /\ pc # "crash" /\ pc \notin Recording
         /\ pc \in Booting => get + 1 = Boot /\ io[get].op = "nop"
         /\ pc \in Running => get \in Start..(put - 1) /\ get + 1 \in Start..put
         /\ pc \in Ended => io[get].op = "nop"
<1>1. Ret.op = "ret" /\ Nop.op = "nop" /\ Invalid.op = "invalid" /\ Jmp(Start).op = "jmp"
  BY DEF Ret, Nop, Invalid, Jmp, Cmd
<1>2. get \in Offsets /\ put \in Offsets /\ io[get] \in Commands
  BY DEF IInv, Types, RsxTypes
<1>3. pc \in Booting \cup Recording \cup Running \cup Ended
  BY DEF IInv, Types, MainTypes
<1>4. CASE pc \in Booting
  <2>1. get = 1 /\ io[get] = Nop
    BY <1>4, WhatIsRead
  <2>2. get + 1 = Boot /\ get + 1 \in Offsets
    BY <2>1 DEF Offsets, Start, Longest, Boot
  <2> QED
    BY <1>4, <1>1, <1>2, <2>1, <2>2 DEF Booting, Recording, Running, Masking, Ended
<1>5. CASE pc \in Running
  <2>1. get \in Start..(put - 1)
    BY <1>5, <1>1, WhatIsRead
  <2>2. get + 1 \in Start..put /\ get + 1 \in Offsets
    BY <2>1, <1>2 DEF Offsets, Start, Longest
  <2> QED
    BY <1>5, <2>1, <2>2, <1>2 DEF Booting, Recording, Running, Masking, Ended
<1>6. CASE pc \in Ended
  <2>1. get < Start /\ io[get] = Nop /\ pc # "crash"
    BY <1>6, <1>1, WhatIsRead
  <2>2. get + 1 \in Offsets
    BY <2>1, <1>2 DEF Offsets, Start, Longest
  <2> QED
    BY <1>6, <2>1, <2>2, <1>1, <1>2 DEF Booting, Recording, Running, Masking, Ended
<1>7. pc \notin Recording
  BY WhatIsRead
<1> QED
  BY <1>3, <1>4, <1>5, <1>6, <1>7

\* What a step of the front end does to where it is, and to what it writes.
Moves ==
  /\ RsxTypes'
  /\ UNCHANGED <<io, put, frame, main, stores, low>>
  /\ pc \in Booting => get' = Boot /\ UNCHANGED <<link, ref>>
  /\ pc \in Running => /\ get' \in {Reset, Boot} \cup Start..put /\ link' \in {NoLink} \cup Start..put
                       /\ ref' # ref => get \in Start..(put - 1) /\ get' = get + 1
  /\ pc = "crash" => get' = get

\* The front end moves so.
LEMMA FrontEndMoves ==
  ASSUME IInv, FrontEnd, UNCHANGED <<main, stores, low>>
  PROVE  Moves /\ pc \notin Recording
<1> USE DEF NoLink
<1>0. Ret.op = "ret" /\ Nop.op = "nop" /\ Invalid.op = "invalid" /\ Jmp(Start).op = "jmp"
  BY DEF Ret, Nop, Invalid, Jmp, Cmd
<1>1. RsxTypes /\ StoreTypes /\ MainTypes
  BY DEF IInv, Types
<1>2. CASE ReadNop \/ ReadReference \/ ReadWaitLabel \/ ReadWaitForIdle \/ ReadWaitFlip \/ ReadRelease \/ ReadMethod
  <2>1. get # put /\ get' = get + 1 /\ UNCHANGED <<io, put, link, halted, frame>>
    BY <1>2 DEF ReadNop, ReadReference, ReadWaitLabel, ReadWaitForIdle, ReadWaitFlip, ReadRelease,
                ReadMethod, Reads
  <2>2. io[get].op \in {"nop", "ref", "wait_label", "idle", "wait_flip", "release"} \cup Methods
    BY <1>2 DEF ReadNop, ReadReference, ReadWaitLabel, ReadWaitForIdle, ReadWaitFlip, ReadRelease,
                ReadMethod, Reads
  <2>3. io[get].op \notin {"jmp", "ret", "invalid"}
    BY <2>2 DEF Methods
  <2>4. /\ get + 1 \in Offsets /\ io[get] \in Commands /\ pc # "crash" /\ pc \notin Recording
        /\ pc \in Booting => get + 1 = Boot /\ io[get].op = "nop"
        /\ pc \in Running => get \in Start..(put - 1) /\ get + 1 \in Start..put
    BY <2>1, <2>3, ReadOn
  <2>5. ref' \in {Unset} \cup 0..4 /\ (io[get].op = "nop" => ref' = ref)
    BY <1>2, <1>1, <2>4, EveryCommand
    DEF RsxTypes, ReadNop, ReadReference, ReadWaitLabel, ReadWaitForIdle, ReadWaitFlip, ReadRelease,
        ReadMethod, Reads, Arg
  <2>6. label' \in [Words -> 0..Ones]
    <3>1. CASE ReadRelease
      <4>1. io[get].arg.value \in 0..Ones
        BY <3>1, <2>4, EveryCommand DEF ReadRelease, Reads, Releases
      <4> QED
        BY <3>1, <4>1, <1>1 DEF ReadRelease, Released, Arg, RsxTypes
    <3>2. CASE ~ReadRelease
      BY <1>2, <3>2, <1>1
      DEF RsxTypes, ReadNop, ReadReference, ReadWaitLabel, ReadWaitForIdle, ReadWaitFlip, ReadMethod
    <3> QED
      BY <3>1, <3>2
  <2>7. /\ pipe' \in Seq({c \in Commands : c.op \in Methods}) /\ Len(pipe') <= PipeDepth
        /\ flip' \in {"done", "released", "queued"}
    <3>1. CASE ReadMethod
      <4>1. io[get] \in {c \in Commands : c.op \in Methods}
        BY <3>1, <2>4 DEF ReadMethod, Reads
      <4>2. pipe' = Append(pipe, io[get]) /\ Len(pipe) < PipeDepth /\ flip' \in {"released", flip}
        BY <3>1 DEF ReadMethod
      <4>3. pipe \in Seq({c \in Commands : c.op \in Methods}) /\ flip \in {"done", "released", "queued"}
        BY <1>1 DEF RsxTypes
      <4>4. Len(pipe') = Len(pipe) + 1 /\ pipe' \in Seq({c \in Commands : c.op \in Methods}) /\ Len(pipe) \in Nat
        BY <4>1, <4>2, <4>3, AppendProperties, LenProperties
      <4> QED
        BY <4>2, <4>3, <4>4, GcmTestsAssumption
    <3>2. CASE ~ReadMethod
      BY <1>2, <3>2, <1>1
      DEF RsxTypes, ReadNop, ReadReference, ReadWaitLabel, ReadWaitForIdle, ReadWaitFlip, ReadRelease
    <3> QED
      BY <3>1, <3>2
  <2>8. RsxTypes'
    BY <1>1, <2>1, <2>4, <2>5, <2>6, <2>7 DEF RsxTypes
  <2>9. link' \in {NoLink} \cup Start..put \/ pc \notin Running
    BY <2>1 DEF IInv, Reading
  <2> QED
    BY <2>1, <2>4, <2>5, <2>8, <2>9 DEF Moves
<1>3. CASE ReadJmp
  <2>1. /\ get # put /\ get' = io[get].arg /\ io[get].op = "jmp"
        /\ UNCHANGED <<io, put, link, halted, ref, label, pipe, frame, flip>>
    BY <1>3 DEF ReadJmp, Reads, Arg
  <2>2. pc \notin Recording /\ pc \notin Booting /\ pc # "crash"
    BY <2>1, <1>0, WhatIsRead DEF Ended
  <2>3. get' \in Offsets
    <3>1. io[get] \in Commands
      BY <1>1 DEF RsxTypes
    <3> QED
      BY <2>1, <3>1, EveryCommand DEF Jumps
  <2>4. ASSUME pc \in Running PROVE get' \in {Reset, Boot} \cup Start..put /\ link' \in {NoLink} \cup Start..put
    <3>1. link' \in {NoLink} \cup Start..put
      BY <2>1, <2>4 DEF IInv, Reading
    <3>2. CASE get = Boot /\ io[get] = Jmp(Start)
      <4>1. get' = Start
        BY <2>1, <3>2 DEF Jmp, Cmd
      <4>2. put \in Nat /\ Start <= put
        BY <2>4, RunningPut
      <4> QED
        BY <4>1, <4>2, <3>1 DEF Start
    <3>3. CASE Sound(io[get], put)
      BY <2>1, <3>1, <3>3 DEF Sound, Jumps
    <3>4. io[get] # Ret
      BY <2>1 DEF Ret, Cmd
    <3> QED
      BY <2>1, <2>4, <3>2, <3>3, <3>4, WhatIsRead
  <2>5. RsxTypes'
    BY <1>1, <2>1, <2>3 DEF RsxTypes
  <2> QED
    BY <2>1, <2>2, <2>4, <2>5 DEF Moves
<1>4. CASE ReadCall
  <2>1. /\ get # put /\ get' = io[get].arg /\ link' = get + 1 /\ io[get].op = "call"
        /\ UNCHANGED <<io, put, halted, ref, label, pipe, frame, flip>>
    BY <1>4 DEF ReadCall, Reads, Arg
  <2>2. /\ get + 1 \in Offsets /\ io[get] \in Commands /\ pc # "crash" /\ pc \notin Recording
        /\ pc \notin Booting /\ pc \notin Ended
        /\ pc \in Running => get \in Start..(put - 1) /\ get + 1 \in Start..put
    BY <2>1, ReadOn
  <2>3. get' \in Offsets
    BY <2>1, <2>2, EveryCommand DEF Jumps
  <2>4. pc \in Running => get' \in {Reset, Boot} \cup Start..put
    <3>1. Ret.op # "call" /\ Jmp(Start).op # "call"
      BY DEF Ret, Jmp, Cmd
    <3> QED
      BY <2>1, <3>1, WhatIsRead DEF Sound, Jumps
  <2>5. RsxTypes'
    BY <1>1, <2>1, <2>2, <2>3 DEF RsxTypes
  <2> QED
    BY <2>1, <2>2, <2>4, <2>5 DEF Moves
<1>5. CASE ReadReturn
  <2>1. /\ get # put /\ get' = link /\ link' = NoLink /\ link # NoLink /\ io[get].op = "ret"
        /\ UNCHANGED <<io, put, halted, ref, label, pipe, frame, flip>>
    BY <1>5 DEF ReadReturn, Reads
  <2>2. pc \notin Recording /\ pc \notin Booting /\ pc # "crash"
    BY <2>1, <1>0, WhatIsRead DEF Ended
  <2>3. pc \in Running => get' \in Start..put
    BY <2>1 DEF IInv, Reading
  <2>4. RsxTypes'
    <3>1. NoLink \in Offsets
      BY DEF Offsets, Start, Longest
    <3> QED
      BY <1>1, <2>1, <3>1 DEF RsxTypes
  <2> QED
    BY <2>1, <2>2, <2>3, <2>4 DEF Moves
<1>6. CASE GraphicsError
  <2>1. get # put /\ halted' = TRUE /\ UNCHANGED <<io, put, get, link, ref, label, pipe, frame, flip>>
        /\ io[get].op \in {"invalid", "call", "ret"}
    BY <1>6 DEF GraphicsError, Reads
  <2>2. pc \notin Recording /\ pc \notin Booting
    BY <2>1, <1>0, WhatIsRead
  <2>3. RsxTypes'
    BY <1>1, <2>1 DEF RsxTypes
  <2>4. pc \in Running => get \in {Reset, Boot} \cup Start..put /\ link \in {NoLink} \cup Start..put
    BY DEF IInv, Reading
  <2> QED
    BY <2>1, <2>2, <2>3, <2>4 DEF Moves
<1> QED
  BY <1>2, <1>3, <1>4, <1>5, <1>6 DEF FrontEnd

\* The engine and the display move nothing the front end reads.
LEMMA EngineMoves ==
  ASSUME IInv, Engine \/ VBlank
  PROVE  RsxTypes' /\ UNCHANGED <<io, put, get, link, ref>>
<1>1. RsxTypes
  BY DEF IInv, Types
<1>2. CASE VBlank
  BY <1>1, <1>2 DEF VBlank, RsxTypes
<1>3. CASE Engine
  <2> DEFINE S == {c \in Commands : c.op \in Methods}
             D == {c.arg : c \in {d \in Commands : d.op = "draw"}}
  <2>1. pipe # <<>> /\ pipe' = Tail(pipe) /\ UNCHANGED <<io, put, get, link, ref>>
    BY <1>3 DEF Engine, ExecuteDraw, ExecuteBadDraw, ExecuteWriteLabel, ExecuteFlip, Executes
  <2>2. pipe \in Seq(S) /\ Len(pipe) <= PipeDepth /\ frame \in Seq(D) /\ Len(frame) <= FrameDepth
    BY <1>1 DEF RsxTypes
  <2>3. Head(pipe) \in S /\ pipe' \in Seq(S) /\ Len(pipe') <= PipeDepth
    <3>1. Head(pipe) \in S /\ Tail(pipe) \in Seq(S) /\ Len(Tail(pipe)) = Len(pipe) - 1 /\ Len(pipe) \in Nat
      BY <2>1, <2>2, HeadTailProperties, LenProperties
    <3> QED
      BY <2>1, <2>2, <3>1, GcmTestsAssumption
  <2>4. label' \in [Words -> 0..Ones]
    <3>1. label \in [Words -> 0..Ones]
      BY <1>1 DEF RsxTypes
    <3>2. CASE ExecuteWriteLabel
      <4>1. Head(pipe).op \in {"label", "texture_label"}
        BY <3>2 DEF ExecuteWriteLabel, Executes
      <4>2. Head(pipe).arg.value \in 0..Ones
        BY <4>1, <2>3, EveryCommand DEF Releases
      <4>3. SwapBytes(Head(pipe).arg.value) \in 0..Ones
        BY <4>2 DEF SwapBytes, Ones
      <4> QED
        BY <3>1, <3>2, <4>2, <4>3 DEF ExecuteWriteLabel, Released
    <3>3. CASE ~ExecuteWriteLabel
      BY <1>3, <3>1, <3>3 DEF Engine, ExecuteDraw, ExecuteBadDraw, ExecuteFlip
    <3> QED
      BY <3>2, <3>3
  <2>5. frame' \in Seq(D) /\ Len(frame') <= FrameDepth
    <3>1. CASE ExecuteDraw
      <4>1. Head(pipe).arg \in D
        BY <2>3, <3>1 DEF ExecuteDraw, Executes
      <4>2. /\ Append(frame, Head(pipe).arg) \in Seq(D)
            /\ Len(Append(frame, Head(pipe).arg)) = Len(frame) + 1 /\ Len(frame) \in Nat
        BY <2>2, <4>1, AppendProperties, LenProperties
      <4> QED
        BY <2>2, <3>1, <4>2 DEF ExecuteDraw, FrameDepth
    <3>2. CASE ~ExecuteDraw
      BY <1>3, <2>2, <3>2 DEF Engine, ExecuteBadDraw, ExecuteFlip, ExecuteWriteLabel
    <3> QED
      BY <3>1, <3>2
  <2>6. halted' \in BOOLEAN /\ flip' \in {"done", "released", "queued"}
    BY <1>1, <1>3 DEF RsxTypes, Engine, ExecuteDraw, ExecuteBadDraw, ExecuteFlip, ExecuteWriteLabel
  <2> QED
    BY <1>1, <2>1, <2>3, <2>4, <2>5, <2>6 DEF RsxTypes
<1> QED
  BY <1>2, <1>3

\* The RSX reads, executes and shows.
LEMMA GpuSteps ==
  ASSUME IInv, Beside((~low /\ FrontEnd) \/ Engine \/ VBlank)
  PROVE  IInv'
<1> USE DEF IInv, Types
<1>1. UNCHANGED <<main, stores, low>> /\ ((low = FALSE /\ FrontEnd) \/ Engine \/ VBlank)
  BY DEF Beside
<1>2. StoreTypes' /\ MainTypes'
  BY <1>1 DEF StoreTypes, MainTypes, main
<1>3. CASE Engine \/ VBlank
  <2>1. RsxTypes' /\ UNCHANGED <<io, put, get, link, ref>>
    BY <1>3, EngineMoves
  <2> QED
    BY <1>1, <1>2, <2>1 DEF Control, Memory, Reading, References, Will, main
<1>4. CASE low = FALSE /\ FrontEnd
  <2>1. Moves /\ pc \notin Recording
    BY <1>1, <1>4, FrontEndMoves
  <2>2. /\ RsxTypes' /\ UNCHANGED <<io, put, frame, main, stores, low>>
        /\ pc \in Booting => get' = Boot /\ UNCHANGED <<link, ref>>
        /\ pc \in Running => /\ get' \in {Reset, Boot} \cup Start..put /\ link' \in {NoLink} \cup Start..put
                             /\ ref' # ref => get \in Start..(put - 1) /\ get' = get + 1
        /\ pc = "crash" => get' = get
    BY <2>1 DEF Moves
  <2>3. Control'
    BY <2>1, <2>2 DEF Control, main
  <2>4. Memory'
    BY <2>2 DEF Memory, Will, main
  <2>5. Reading'
    BY <2>1, <2>2 DEF Reading, main
  <2>6. References'
    <3>1. ASSUME pc \in Running, batch < Len(Batches(test)), ref' # Unset PROVE get' = put
      <4>1. put = Start + 1
        BY <3>1, RunningPut, Here, TwoBatches
      <4>2. get # put
        BY <1>4 DEF FrontEnd, ReadNop, ReadJmp, ReadCall, ReadReturn, ReadReference, ReadWaitLabel,
                    ReadRelease,
                    ReadWaitForIdle, ReadWaitFlip, ReadMethod, GraphicsError, Reads
      <4>3. ref = Unset
        BY <3>1, <4>2 DEF References
      <4> QED
        BY <2>2, <3>1, <4>1, <4>3 DEF Start
    <3> QED
      BY <1>4, <2>2, <3>1 DEF References, main
  <2> QED
    BY <1>2, <2>2, <2>3, <2>4, <2>5, <2>6
<1> QED
  BY <1>1, <1>3, <1>4

\* Nothing happens.
LEMMA Stuttering ==
  ASSUME IInv, UNCHANGED vars
  PROVE  IInv'
<1>1. Types'
  BY DEF IInv, Types, RsxTypes, MainTypes, StoreTypes, vars, rsx, main
<1> QED
  BY <1>1 DEF IInv, Control, Memory, Reading, References, Will, vars, rsx, main

\* Every step keeps the invariant.
LEMMA Inductive == IInv /\ [Next]_vars => IInv'
<1> SUFFICES ASSUME IInv, [Next]_vars PROVE IInv'
  OBVIOUS
<1>1. CASE Ppu
  BY <1>1, BootSteps, RecordSteps, WaitSteps, MaskSteps DEF Ppu, StoreAndReload
<1>2. CASE StoreArrives
  BY <1>2, StoreSteps
<1>3. CASE Gpu
  BY <1>3, GpuSteps, MaskSteps DEF Gpu
<1>4. CASE UNCHANGED vars
  BY <1>4, Stuttering
<1> QED
  BY <1>1, <1>2, <1>3, <1>4 DEF Next

\* So it holds always.
LEMMA Invariance == Spec => []IInv
BY Initially, Inductive, PTL DEF Spec

\* The types of the RSX and of main, whatever tests run and however far the
\* engine is behind.
THEOREM TypesHold == Spec => []TypeOK
<1>1. IInv => TypeOK
  <2> SUFFICES ASSUME IInv PROVE TypeOK
    OBVIOUS
  <2>1. RsxTypes /\ MainTypes /\ StoreTypes
    BY DEF IInv, Types
  <2>2. \A i \in DOMAIN pipe : pipe[i].op \in Methods
    BY <2>1 DEF RsxTypes
  <2>3. batch \in DOMAIN Program.batches /\ pos \in Offsets
    <3>1. pos \in {Begins(test, batch), Ends(test, batch)}
      BY DEF IInv, Control
    <3> QED
      BY <3>1, Here DEF IInv, Offsets, Start, Longest
  <2>4. pc \in {"wait_for_fifo", "jump", "set labels", "record", "flush", "wait", "finished",
                "crash", "for ever", "store", "reload", "store again", "reload again"}
    BY <2>1 DEF MainTypes, Booting, Recording, Running, Masking, Ended
  <2>5. \A o \in DOMAIN stores : o \in Offsets /\ stores[o] \in Commands
    BY <2>1 DEF StoreTypes
  <2> QED
    BY <2>1, <2>2, <2>3, <2>4, <2>5 DEF TypeOK, RsxTypes, MainTypes
<1> QED
  BY <1>1, Invariance, PTL

\* The RSX reads nothing that is on its way to memory, and nothing that was not
\* recorded for it: main stores put when its stores have arrived, and never
\* while the RSX reads.
THEOREM ReadsOnlyRecorded == Spec => []ReadsOnlyWhatIsRecorded
<1>1. IInv => ReadsOnlyWhatIsRecorded
  <2> SUFFICES ASSUME IInv, get # put
               PROVE  get \notin DOMAIN stores /\ (pc # "for ever" => get < pos)
    BY DEF ReadsOnlyWhatIsRecorded
  <2>1. pc \notin Recording /\ stores = <<>>
    BY DEF IInv, Control
  <2>2. DOMAIN stores = {}
    BY <2>1
  <2>3. CASE pc \in Booting
    <3>1. get = 1 /\ pos = Begins(test, batch) /\ batch = 1
      BY <2>3 DEF IInv, Control
    <3>2. pos = 3
      BY <3>1, Here DEF IInv, Start
    <3>3. get < pos
      BY <3>1, <3>2
    <3> QED
      BY <2>2, <3>3
  <2>4. CASE pc \in Running
    <3>1. put \in Nat /\ pos \in Nat /\ put <= pos /\ Start <= put
      BY <2>4, RunningPut
    <3>2. get \in {Reset, Boot} \cup Start..put
      BY <2>4 DEF IInv, Reading
    <3>3. get < pos
      BY <3>1, <3>2 DEF Reset, Boot, Start
    <3> QED
      BY <2>2, <3>3
  <2>5. CASE pc \in Ended
    BY <2>2, <2>5 DEF IInv, Reading, Ended
  <2> QED
    BY <2>1, <2>3, <2>4, <2>5 DEF IInv, Types, MainTypes
<1> QED
  BY <1>1, Invariance, PTL
-----------------------------------------------------------------------------
(* The fence. *)

\* Up to the wait, the label does not have the value and no method gives it; at
\* the wait, the last method does, or has and there is none left.
Unfenced(p) == \A i \in 1..Len(p) : ~Frees(p[i])
Fence(f) == pc \notin Ended =>
  /\ link # NoLink => get = Reset /\ link < f
  /\ get < f => label[Word(64)] # Fenced /\ Unfenced(pipe)
  /\ get = f => \/ label[Word(64)] = Fenced /\ pipe = <<>>
                \/ /\ label[Word(64)] # Fenced
                   /\ pipe # <<>> /\ pipe[Len(pipe)] = WriteLabel(Fenced)
                   /\ \A i \in 1..(Len(pipe) - 1) : ~Frees(pipe[i])
FenceInv == \A f \in Waits(test) : Fence(f)

\* Outside of Ended, what is in memory between get and put is the program's.
LEMMA ReadsCode ==
  ASSUME IInv, get # put, pc \notin Ended
  PROVE  \/ get \in {Reset, 1, Boot} /\ io[get] \in {Ret, Nop, Jmp(Start)}
         \/ get \in Recorded(test) /\ io[get] = Code(test, get)
BY WhatIsRead DEF IInv, Types, MainTypes, Boot

\* A wait is behind the boot and is recorded.
LEMMA WaitOffset ==
  ASSUME NEW t \in Tests, NEW f \in Waits(t), t # "image_in"
  PROVE  FenceOK(t, f) /\ f \in Nat /\ Start < f
<1>1. FenceOK(t, f)
  BY AllUnderstood
<1>2. f \in Recorded(t) /\ f - 1 \in Recorded(t)
  BY <1>1 DEF FenceOK, Waits
<1>3. Recorded(t) \subseteq Nat /\ \A o \in Recorded(t) : Start <= o
  BY DEF Recorded, Start
<1> QED
  BY <1>1, <1>2, <1>3 DEF Start

\* Nothing has been written to the label when the system boots.
LEMMA InitiallyFenced ==
  ASSUME "image_in" \notin Tests, Init
  PROVE  FenceInv
<1> SUFFICES ASSUME NEW f \in Waits(test) PROVE Fence(f)
  BY DEF FenceInv
<1>1. get < f /\ get # f /\ link = NoLink /\ pipe = <<>>
  BY WaitOffset DEF Init, Start
<1>2. label[Word(64)] # Fenced
  <2>1. Word(64) \in Words
    BY DEF Word, Words
  <2> QED
    BY <2>1 DEF Init, Untouched, Fenced
<1>3. Unfenced(pipe)
  BY <1>1 DEF Unfenced
<1> QED
  BY <1>1, <1>2, <1>3 DEF Fence

\* A step of the front end: it comes to the wait only past the release before it.
LEMMA FrontEndFences ==
  ASSUME "image_in" \notin Tests, IInv, NEW f \in Waits(test), Fence(f), FrontEnd, pc \notin Ended
  PROVE  Fence(f)'
<1> DEFINE c == io[get]
<1>1. /\ FenceOK(test, f) /\ f \in Nat /\ Start < f
  BY WaitOffset DEF IInv, Types, MainTypes
<1>2. /\ get \in Nat /\ link \in Nat /\ label \in [Words -> 0..Ones]
      /\ pipe \in Seq({d \in Commands : d.op \in Methods})
  BY DEF IInv, Types, RsxTypes, Offsets, Start, Longest
<1>3. get # put
  BY DEF FrontEnd, ReadNop, ReadJmp, ReadCall, ReadReturn, ReadReference, ReadWaitLabel, ReadRelease,
         ReadWaitForIdle, ReadWaitFlip, ReadMethod, GraphicsError, Reads
<1>4. /\ link # NoLink => get = Reset /\ link < f
      /\ get < f => label[Word(64)] # Fenced /\ Unfenced(pipe)
  BY DEF Fence
<1>5. CASE get \in {Reset, 1, Boot} /\ c \in {Ret, Nop, Jmp(Start)}
  <2>1. get < f /\ get + 1 < f
    BY <1>1, <1>5 DEF Reset, Boot, Start
  <2>2. c.op \in {"ret", "nop", "jmp"} /\ (c.op = "jmp" => c.arg = Start) /\ (c = Ret => c.op = "ret")
    BY <1>5 DEF Ret, Nop, Jmp, Cmd
  <2>3. link # NoLink => c = Ret
    <3>1. SUFFICES ASSUME link # NoLink PROVE c = Ret
      OBVIOUS
    <3>2. get = Reset
      BY <1>4, <3>1
    <3>3. pc \in Running
      <4>1. pc \notin Booting
        BY <3>1 DEF IInv, Control
      <4> QED
        BY <4>1, <1>3, WhatIsRead DEF IInv, Types, MainTypes
    <3> QED
      BY <3>2, <3>3, <1>3, WhatIsRead DEF Reset, Boot, Start
  <2>4. (link # NoLink => c.op = "ret") /\ UNCHANGED <<label, pipe>> /\ get' < f /\ link' = NoLink
    <3>1. CASE ReadNop
      BY <3>1, <2>1, <2>2, <2>3 DEF ReadNop, Reads
    <3>2. CASE ReadJmp
      BY <3>2, <1>1, <2>2, <2>3 DEF ReadJmp, Reads, Arg
    <3>3. CASE ReadReturn
      BY <3>3, <1>4, <2>2, <2>3 DEF ReadReturn
    <3>4. CASE GraphicsError
      BY <3>4, <2>1, <2>2, <2>3 DEF GraphicsError, Reads
    <3> QED
      BY <3>1, <3>2, <3>3, <3>4, <2>2
      DEF FrontEnd, ReadCall, ReadReference, ReadWaitLabel, ReadRelease, ReadWaitForIdle, ReadWaitFlip,
          ReadMethod, Reads, Methods
  <2> QED
    BY <2>1, <2>4, <1>1, <1>2, <1>4 DEF Fence, Unfenced
<1>6. CASE get \in Recorded(test) /\ c = Code(test, get)
  <2>1. /\ get < f - 1 => ~Frees(c)
        /\ c.op # "ret"
        /\ c.op = "call" => c.arg = Reset /\ get < f - 1
        /\ c.op = "jmp" => c.arg # Reset /\ (c.arg < f <=> get < f) /\ c.arg # f
    BY <1>1, <1>6 DEF FenceOK
  <2>2. /\ get = f - 1 => c.op = "label" /\ c = WriteLabel(Fenced)
        /\ get = f => c.op = "wait_label"
    BY <1>1, <1>6 DEF FenceOK, WriteLabel, BackEndRelease, WaitLabel, Acquire, Cmd
  <2>3. Start <= get /\ link = NoLink
    BY <1>4, <1>6 DEF Recorded, Start, Reset
  <2>4. CASE ReadNop \/ ReadReference \/ ReadWaitForIdle \/ ReadWaitFlip \/ ReadWaitLabel
    <3>1. get # f - 1 /\ get' = get + 1 /\ UNCHANGED <<link, label, pipe>>
      BY <2>2, <2>4 DEF ReadNop, ReadReference, ReadWaitForIdle, ReadWaitFlip, ReadWaitLabel, Reads
    <3> QED
      BY <3>1, <1>1, <1>2, <1>4, <2>3 DEF Fence, Unfenced
  <2>5. CASE ReadRelease
    <3>1. c.op = "release" /\ get' = get + 1 /\ UNCHANGED <<link, pipe>> /\ Released(c.arg, c.arg.value)
      BY <2>5 DEF ReadRelease, Reads, Arg
    <3>2. get # f - 1 /\ get # f
      BY <3>1, <2>2
    <3>3. get < f - 1 => label'[Word(64)] # Fenced
      BY <3>1, <2>1, <1>2, <1>1, <1>4 DEF Released, Frees, Releases
    <3> QED
      BY <3>1, <3>2, <3>3, <1>1, <1>2, <1>4, <2>3 DEF Fence, Unfenced
  <2>6. CASE ReadMethod
    <3>1. c.op \in Methods /\ get' = get + 1 /\ UNCHANGED <<link, label>> /\ pipe' = Append(pipe, c)
      BY <2>6 DEF ReadMethod, Reads
    <3>2. get # f
      BY <3>1, <2>2 DEF Methods
    <3>3. c \in {d \in Commands : d.op \in Methods}
      BY <3>1, <1>3, ReadOn DEF Methods
    <3>4. /\ Len(pipe') = Len(pipe) + 1 /\ Len(pipe) \in Nat /\ pipe'[Len(pipe')] = c /\ pipe' # <<>>
          /\ \A i \in 1..Len(pipe) : pipe'[i] = pipe[i]
      BY <3>1, <3>3, <1>2, AppendProperties, LenProperties
    <3>5. CASE get < f - 1
      <4>1. Unfenced(pipe')
        BY <3>4, <3>5, <1>1, <1>2, <1>4, <2>1 DEF Unfenced
      <4> QED
        BY <4>1, <3>1, <3>5, <1>1, <1>2, <1>4, <2>3 DEF Fence
    <3>6. CASE get = f - 1
      <4>1. \A i \in 1..(Len(pipe') - 1) : ~Frees(pipe'[i])
        BY <3>4, <3>6, <1>1, <1>2, <1>4 DEF Unfenced
      <4>2. c = WriteLabel(Fenced) /\ label[Word(64)] # Fenced /\ get' = f
        BY <3>1, <3>6, <2>2, <1>1, <1>2, <1>4
      <4> QED
        BY <4>1, <4>2, <3>1, <3>4, <2>3, <1>1 DEF Fence
    <3>7. CASE get > f
      BY <3>1, <3>7, <1>1, <1>2, <2>3 DEF Fence
    <3> QED
      BY <3>2, <3>5, <3>6, <3>7, <1>1, <1>2
  <2>7. CASE ReadJmp
    <3>1. c.op = "jmp" /\ get' = c.arg /\ UNCHANGED <<link, label, pipe>>
      BY <2>7 DEF ReadJmp, Reads, Arg
    <3>2. get # f
      BY <3>1, <2>2
    <3> QED
      BY <3>1, <3>2, <1>1, <1>2, <1>4, <2>1, <2>3 DEF Fence, Unfenced
  <2>8. CASE ReadCall
    <3>1. c.op = "call" /\ get' = c.arg /\ link' = get + 1 /\ UNCHANGED <<label, pipe>>
      BY <2>8 DEF ReadCall, Reads, Arg
    <3>2. get' = Reset /\ get' < f /\ get < f /\ link' < f
      BY <3>1, <2>1, <1>1, <1>2 DEF Reset, Start
    <3> QED
      <4>1. label'[Word(64)] # Fenced /\ Unfenced(pipe')
        BY <3>1, <3>2, <1>4
      <4> QED
        BY <4>1, <3>2, <1>1 DEF Fence
  <2>9. CASE GraphicsError
    BY <2>9 DEF GraphicsError, Fence, Unfenced
  <2>10. ~ReadReturn
    BY <2>1 DEF ReadReturn, Reads
  <2> QED
    BY <2>4, <2>5, <2>6, <2>7, <2>8, <2>9, <2>10 DEF FrontEnd
<1> QED
  BY <1>3, <1>5, <1>6, ReadsCode

\* A step of the engine: the label gets the value from the last method only.
LEMMA EngineFences ==
  ASSUME IInv, NEW f, Fence(f), Engine, pc \notin Ended
  PROVE  Fence(f)'
<1> DEFINE S == {d \in Commands : d.op \in Methods}
<1>1. pipe \in Seq(S) /\ label \in [Words -> 0..Ones]
  BY DEF IInv, Types, RsxTypes
<1>2. pipe # <<>> /\ pipe' = Tail(pipe) /\ UNCHANGED <<get, link>>
  BY DEF Engine, ExecuteDraw, ExecuteBadDraw, ExecuteWriteLabel, ExecuteFlip, Executes
<1>3. /\ Len(pipe) \in Nat \ {0} /\ Len(pipe') = Len(pipe) - 1 /\ Head(pipe) = pipe[1]
      /\ \A i \in 1..Len(pipe') : pipe'[i] = pipe[i + 1]
      /\ pipe' \in Seq(S)
  BY <1>1, <1>2, HeadTailProperties, LenProperties, EmptySeq
<1>4. ASSUME label[Word(64)] # Fenced, ~Frees(Head(pipe))
      PROVE  label'[Word(64)] # Fenced
  <2> DEFINE c == Head(pipe)
  <2>1. CASE Executes("label") /\ Released(c.arg, SwapBytes(c.arg.value))
    <3>1. c.op = "label" /\ (c.arg.at = Word(64) => SwapBytes(c.arg.value) # Fenced)
      BY <1>4, <2>1 DEF Executes, Frees, Releases
    <3> QED
      BY <1>1, <1>4, <2>1, <3>1 DEF Released
  <2>2. CASE Executes("texture_label") /\ Released(c.arg, c.arg.value)
    <3>1. c.op = "texture_label" /\ (c.arg.at = Word(64) => c.arg.value # Fenced)
      BY <1>4, <2>2 DEF Executes, Frees, Releases
    <3> QED
      BY <1>1, <1>4, <2>2, <3>1 DEF Released
  <2>3. CASE ~ExecuteWriteLabel
    BY <1>4, <2>3 DEF Engine, ExecuteDraw, ExecuteBadDraw, ExecuteFlip
  <2> QED
    BY <2>1, <2>2, <2>3 DEF ExecuteWriteLabel
<1>5. ASSUME get < f PROVE label'[Word(64)] # Fenced /\ Unfenced(pipe')
  <2>1. label[Word(64)] # Fenced /\ Unfenced(pipe)
    BY <1>5 DEF Fence
  <2>2. ~Frees(Head(pipe)) /\ Unfenced(pipe')
    BY <2>1, <1>3 DEF Unfenced
  <2> QED
    BY <2>1, <2>2, <1>4
<1>6. ASSUME get = f
      PROVE  \/ label'[Word(64)] = Fenced /\ pipe' = <<>>
             \/ /\ label'[Word(64)] # Fenced
                /\ pipe' # <<>> /\ pipe'[Len(pipe')] = WriteLabel(Fenced)
                /\ \A i \in 1..(Len(pipe') - 1) : ~Frees(pipe'[i])
  <2>1. /\ label[Word(64)] # Fenced /\ pipe[Len(pipe)] = WriteLabel(Fenced)
        /\ \A i \in 1..(Len(pipe) - 1) : ~Frees(pipe[i])
    BY <1>2, <1>6 DEF Fence
  <2>2. CASE Len(pipe) = 1
    <3>1. Head(pipe) = WriteLabel(Fenced) /\ pipe' = <<>>
      BY <1>3, <2>1, <2>2, EmptySeq
    <3>2. /\ Head(pipe).op = "label" /\ Head(pipe).arg.at = Word(64)
          /\ SwapBytes(Head(pipe).arg.value) = Fenced /\ Word(64) \in Words
      BY <3>1 DEF WriteLabel, BackEndRelease, Cmd, SwapBytes, Fenced, Word, Words
    <3>3. Released(Head(pipe).arg, SwapBytes(Head(pipe).arg.value))
      BY <3>2 DEF Engine, ExecuteDraw, ExecuteBadDraw, ExecuteWriteLabel, ExecuteFlip, Executes
    <3> QED
      BY <3>1, <3>2, <3>3, <1>1 DEF Released
  <2>3. CASE Len(pipe) # 1
    <3>1. ~Frees(Head(pipe)) /\ pipe'[Len(pipe')] = WriteLabel(Fenced) /\ Len(pipe') # 0
      BY <1>3, <2>1, <2>3
    <3>2. \A i \in 1..(Len(pipe') - 1) : ~Frees(pipe'[i])
      BY <1>3, <2>1
    <3>3. pipe' # <<>>
      BY <3>1
    <3> QED
      BY <3>1, <3>2, <3>3, <2>1, <1>4
  <2> QED
    BY <2>2, <2>3
<1> QED
  BY <1>2, <1>5, <1>6 DEF Fence

\* The fence's state is the RSX's: main changes it only where it sets the labels,
\* long before the RSX is at the wait.
LEMMA OthersFence ==
  ASSUME "image_in" \notin Tests, IInv, NEW f \in Waits(test), pc \notin Ended => Fence(f),
         Ppu \/ StoreArrives \/ MaskPut \/ Beside(VBlank) \/ UNCHANGED vars
  PROVE  Fence(f)'
<1>1. pc \in Ended => pc' \in Ended
  BY DEF Ppu, StoreAndReload, StoreUnaligned, LoadOld, StoreOnce, SeeItMasked, StoreAgain,
         SeeItUnmasked, MissIt,
         Wait_for_fifo, PlaceJump, SetLabels, Record, flush, NextBatch, Finish, Unmap, Crash, StoreArrives, MaskPut,
         Beside, vars, main, Ended
<1>2. CASE ~SetLabels
  <2>1. UNCHANGED <<get, link, label, pipe>>
    BY <1>2 DEF Ppu, StoreAndReload, StoreUnaligned, LoadOld, StoreOnce, SeeItMasked, StoreAgain,
                SeeItUnmasked, MissIt,
           store_put, Wait_for_fifo, PlaceJump, Record, flush, NextBatch, Finish, Unmap, Crash, StoreArrives, MaskPut,
           Beside, VBlank, vars, rsx
  <2> QED
    BY <1>1, <2>1 DEF Fence, Unfenced
<1>3. CASE SetLabels
  <2>1. pc = "set labels" /\ label' = Cleared /\ UNCHANGED <<get, link, pipe>>
    BY <1>3 DEF SetLabels
  <2>2. get = Boot /\ link = NoLink
    BY <2>1 DEF IInv, Control, Recording
  <2>3. get < f /\ get # f
    BY <2>2, WaitOffset DEF IInv, Types, MainTypes, Boot, Start
  <2>4. Unfenced(pipe)
    BY <2>1, <2>3 DEF Fence, Ended
  <2>5. label'[Word(64)] # Fenced
    <3>1. Word(64) \in Words /\ Word(64) < Word(67)
      BY DEF Words, Word
    <3>2. Cleared[Word(64)] = 0
      BY <3>1 DEF Cleared
    <3>3. label'[Word(64)] = 0
      BY <2>1, <3>2, Zenon
    <3> QED
      BY <3>3 DEF Fenced
  <2> QED
    BY <2>1, <2>2, <2>3, <2>4, <2>5 DEF Fence, Unfenced
<1> QED
  BY <1>2, <1>3

\* Every step keeps the fence.
LEMMA StillFenced ==
  ASSUME "image_in" \notin Tests, IInv, FenceInv, [Next]_vars
  PROVE  FenceInv'
<1>1. test' = test
  BY DEF Next, Ppu, StoreAndReload, StoreUnaligned, LoadOld, StoreOnce, SeeItMasked, StoreAgain,
         SeeItUnmasked, MissIt,
         store_put, Wait_for_fifo, PlaceJump, SetLabels, Record, flush, NextBatch, Finish, Unmap, Crash, StoreArrives,
         Gpu, MaskPut, Beside, vars, main
<1>2. ASSUME NEW f \in Waits(test)
      PROVE  Fence(f)'
  <2>1. Fence(f)
    BY <1>2 DEF FenceInv
  <2>2. CASE Ppu \/ StoreArrives \/ MaskPut \/ Beside(VBlank) \/ UNCHANGED vars
    BY <2>1, <2>2, OthersFence
  <2>3. CASE Beside((~low /\ FrontEnd) \/ Engine)
    <3>1. pc' = pc /\ (FrontEnd \/ Engine)
      BY <2>3 DEF Beside, main
    <3>2. CASE pc \in Ended
      BY <3>1, <3>2 DEF Fence
    <3>3. CASE pc \notin Ended
      BY <2>1, <3>1, <3>3, FrontEndFences, EngineFences
    <3> QED
      BY <3>2, <3>3
  <2> QED
    BY <2>2, <2>3 DEF Next, Gpu, Beside
<1> QED
  BY <1>1, <1>2 DEF FenceInv

\* "rsx ops fence": in the tests with one fence, what is recorded before it has
\* been executed when the RSX goes on after it.  The value of its label is then
\* written once, by its own release, which the engine comes to last.
THEOREM FenceOrders ==
  ASSUME "image_in" \notin Tests
  PROVE  Spec => FenceFences
<1>1. ASSUME IInv, FenceInv, ReadWaitLabel PROVE pipe = <<>>
  <2>1. get # put /\ io[get].op = "wait_label" /\ label[io[get].arg.at] = io[get].arg.value
    BY <1>1 DEF ReadWaitLabel, Reads, Arg
  <2>2. pc \notin Booting /\ pc \notin Ended
    BY <1>1, <2>1, ReadOn
  <2>3. Ret.op = "ret" /\ Nop.op = "nop" /\ Jmp(Start).op = "jmp"
    BY DEF Ret, Nop, Jmp, Cmd
  <2>4. get \in Recorded(test) /\ io[get] = Code(test, get)
    BY <1>1, <2>1, <2>2, <2>3, ReadsCode
  <2>5. get \in Waits(test)
    BY <2>1, <2>4 DEF Waits
  <2>6. Fence(get)
    BY <1>1, <2>5 DEF FenceInv
  <2>7. io[get] = WaitLabel(Fenced)
    BY <1>1, <2>4, <2>5, WaitOffset DEF IInv, Types, MainTypes, FenceOK
  <2>8. label[Word(64)] = Fenced
    BY <2>1, <2>7 DEF WaitLabel, Acquire, Cmd
  <2> QED
    BY <2>2, <2>6, <2>8 DEF Fence
<1>2. Init => IInv /\ FenceInv
  BY Initially, InitiallyFenced
<1>3. IInv /\ FenceInv /\ [Next]_vars => IInv' /\ FenceInv'
  BY Inductive, StillFenced
<1>4. IInv /\ FenceInv => [ReadWaitLabel => pipe = <<>>]_vars
  BY <1>1
<1> QED
  BY <1>2, <1>3, <1>4, PTL DEF Spec, FenceFences
=============================================================================
