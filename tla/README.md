# MyPs3Tests in TLA+

`src/` holds some 160 small programs for the PlayStation 3, each of which asks
one question of the machine: what the RSX makes of a command, when an SPU loses
a reservation, what lv2 answers to a call. Most of them print what they find,
and `expected.txt` beside a program is what a real console printed.

A program like this is only worth something if what it prints is about the
machine and not about itself: about which of its threads was quicker, about a
flag set a line too late, about a value left over from the question before. This
directory models the programs in which that could go wrong - those of several
actors, and those whose calls depend on what their earlier calls have left - and
checks that under every schedule each prints what its
`expected.txt` or its comments say, or shows that it may print something else.

Three kinds of module are kept apart:

- modules of the **tests**: the code in `src/`, action by action;
- modules of the **machine** (`LockLine`, `Rsx`, `SpuThreadGroup`,
  `SpuChannels`, `Mfc`, `RawSpu`, `Lv2`, `Services`, `CellFs`): the hardware,
  the kernel and the libraries, none of which is in `src/`. They say no more
  than what the tests use and what the consoles printed, and where the tests do
  not tell, they leave the choice open;
- `MC*` modules, `.cfg` files and `*_proofs` modules: instances for TLC and
  proofs for TLAPS.

## 1. Inventory

Every program is a component of `PROJECT.json`, with the reason where it is not
modelled. In short:

| Component | State | Operations | What is hard | Modelled in |
|---|---|---|---|---|
| PPU reservation tests (`spu_tests/atomic reservations tests`, PPU half) | `signal`, `cb`, `exit`, `addr` shared by two threads; each thread's reservation; the result of a try | 14 tests: load-reserve, a callback on this thread or on the helper, store-conditional, retry | hand-over of one structure by a flag; a reservation lost to a context switch; stopping the helper | `PpuReservation`, `RemoteCall` |
| SPU reservation tests (the SPU half) | a line of memory two SPUs change; each SPU's reservation, copy, event mask, event count | GETLLAR, PUTLLC, PUTLLUC, PUT; event mask, acknowledgement, read | lost updates, lost events, left-over events, starvation | `SpuReservation`, `LockLine` |
| `rsx_tests/write output mask` | one command buffer, rewritten while the RSX spins in it | record, annul a jump, flush, wait, print | the RSX reads what the PPU is storing | `WriteOutputMask`, `Rsx` |
| RSX tests that record a command buffer (30) | buffer, `put`, `get`, `ref`, words of labels, pipe of the engine, flip | wait for the FIFO, place a jump, set labels, record, flush, wait, unmap | order of plain stores; front end ahead of the engine; fences; which unit releases a label | `GcmTests`, `Rsx` |
| Life of an SPU thread group (9 tests) | group, exit status, mailbox, signal, the locals main prints | set arguments, start, terminate, join, destroy, read the exit status | main races the thread it has started | `SpuGroupTests`, `SpuThreadGroup` |
| SPU events and interrupts (20) | decrementer, pending events, mask, count, SRR0, tag status, mailboxes | channel writes, reads that stall, handler | an event between any two instructions | `SpuEventTests`, `SpuChannels` |
| MFC queue, lists and barriers (6) | queue of commands, stalled tags, tag mask, tag status | issue, wait for a stall, acknowledge, update the tags, poll | commands complete in any order; one acknowledgement for several lists | `MfcTests`, `Mfc` |
| Raw SPUs (9) and the interrupt stack test | registers, three mailboxes, class 2 interrupt, proxy queue | write and poll registers; interrupt thread; SPU program | polling a status that changes twice; level-triggered interrupt | `RawSpuTests`, `RawSpu` |
| Kernel objects (15) | event queue, timer, lightweight mutexes, threads, a flag, who is told of the audio, identifiers | create, connect, start, lock, 117, bind, unmap, join, notify, make, end | main races its thread, or the audio, over each; a queue that is full, gone or replaced; identifiers that repeat | `KernelTests`, `Lv2`, `Services` |
| RSX context and driver (5) | the driver's memory, device, context and blocks | allocate, map, unmap | calls in an order the driver refuses, or twice | `KernelTests`, `Services` |
| File system (5) and the file helpers of `ppu_header.h` | descriptors, files, directories | open, close, read, write, seek, list, unlink; `copy_file_` | descriptors that are reused while an array of them is closed and opened from both ends; one call of several failing; a buffer that is mapped in part | `FileTests`, `CellFs` |
| The three headers | - | `ENSURE_*`, `load_vol`/`store_vol`, `flush`, `gfxFence`, `mfcsync` | order of memory accesses | as parts of the actions above |
| Lock line tests, MFC transfer tests, RSX I/O mapping | | | | not modelled, see 2 and 8 |
| PPU arithmetic, loader and memory, system libraries, single SPU instructions | | | one actor, no state of their own | not modelled, see 8 |

How they interact. A test's main starts threads - PPU threads by
`sys_ppu_thread_create`, SPU threads in a group, or a raw SPU through its
registers - or gives the RSX a buffer, and then meets them again only through
memory (`load_vol`, `store_vol`, the labels of the RSX, the MFC), channels and
mailboxes, kernel objects, files, and the join. Nothing survives a run: there is
no persistent state that a later run looks at - the file tests remove what they
made, or truncate what they find - and so no crash recovery to speak of, but a
lost reservation is retried, a poll may come too late, and several tests end in
an RSX that stops or a join that never returns, on purpose.

What makes each component correct is the properties in 5. The places where the
code could go wrong in a way no run on a console would reliably show are the
`hazards` of `PROJECT.json`, each with the properties that cover it, but for the
two of section 8.

## 2. Plan

Order of work, most important first. Done: 1 to 8, and 12.

1. `PpuReservation` + `RemoteCall`: the protocol of the helper thread, as a
   refinement, and its proof.
2. `SpuReservation` on `LockLine`, and its proof.
3. `Rsx` with `WriteOutputMask` and `GcmTests`.
4. The SPU modules: `SpuGroupTests`, `SpuEventTests`, `MfcTests` (each composed
   with `SpuThreadGroup`), `RawSpuTests`.
5. `Lv2` with `KernelTests`.
6. `CellFs` with `FileTests`, and the proof about its array of descriptors.
7. Words of labels and the three units that release them (`fifo_semaphores_data`
   of `GcmTests`); `Services` in `KernelTests`: the audio's queue, the camera,
   the RSX's driver, the number of threads, identifiers.
8. The proof of `WriteOutputMask`.
9. Lock lines: GETLLAR against plain PUTs, mirrors and cache-inhibited areas, on
   `LockLine`.
10. The pure parts of the headers and of the MFC's transfers, as functions
    against a reference definition: `AddrToOffset` and its inverse, alignment,
    the bytes a list element moves.
11. An abstract specification to refine: a bounded buffer for the FIFO between
    PPU and RSX, for `GcmTests` and `WriteOutputMask`.
12. Theorems: `ReadsOnlyWhatIsRecorded` of `GcmTests`, `AckAfterEveryStall` of
    `MfcTests`, `LeavesAsDescribed` of `FileTests`, `NamesCreatedThreads` of
    `KernelTests`, `ShowsThisRun` and `AsOnTheConsole` of `SpuGroupTests`; then
    `AsOnTheConsole` of `KernelTests`, test by test.

Composition: `MfcTests`, `SpuEventTests` and `SpuGroupTests` INSTANCE
`SpuThreadGroup`; `GcmTests` and `WriteOutputMask` INSTANCE `Rsx`;
`SpuReservation`, `MfcTests`, `SpuEventTests`, `RawSpuTests` and `KernelTests`
INSTANCE `LockLine`, `Mfc`, `SpuChannels`, `RawSpu` and `Lv2`; `KernelTests`
INSTANCEs `Services` too, and `FileTests` `CellFs`. An action of a test conjoins
the operator of the machine it calls, with its own changes.

## 3. Modules and the code

`PROJECT.json` maps each definition to its lines. What the mapping rests on:

**PpuReservation** - one step is one access to memory both threads share;
`load_vol` and `store_vol` fence each, so the steps interleave in program order.
`signal`, `cb`, `exit`, `addr` are `thread_data_t`; `row` goes through the 14
tests in the order of `main`; `try` is the loop up to `to_repeat`. The line is
always zeros, and every store writes zeros, so its contents are left out: what
is printed depends on the reservations alone. `ContextSwitch` takes a
reservation, up to `MaxLosses` times per test.

**RemoteCall** - what `wrap_callback` promises: one run of the function per
call, control back only after it, nothing after the stop. `PpuReservation`
implements it with `owner` read off `signal` and `exit`, and `ran` off the
helper's place.

**SpuReservation / LockLine** - one step is one MFC command or channel access.
The event tests are a program of steps (`EventTests`), with `ack_event` its
mask-ack-drain; the second half is the two loops of the SPUs. `LockLine` keeps
one reservation per SPU, the lost-event flag, its mask and the channel count.

**Rsx** - a front end that reads commands between `get` and `put`, and an engine
up to `PipeDepth` methods behind it. A command is one offset however many words
it has. `Reference` waits for the engine, which also releases labels, but for
those the front end releases itself; a
flip waits for the display. A graphics error stops both. Labels have words; of
a value two bytes are kept, as two digits, which the back end's release swaps;
a release by the front end to an address between two words is dropped, as the
console's output shows.

**WriteOutputMask** - the loop over masks. The PPU's ordinary stores are a set
of stores on their way (`stores`, `clearing`), which arrive in any order and
before an `fsync` passes; `Annul` and `Flush` are `store_vol`s.

**GcmTests** - the 30 mains are alike; `Programs` gives for each its batches of
commands, what main waits for, and the outcome on the console (`"finished"`,
`"error"` or `"shows"`, and the reference). The actions are those of the common
main, and of the store-and-reload loop of `FIFO PUT masking`. The state that the
commands set up is abstracted to whether the RSX accepts the draw, which is what
the console tells. What a program records behind the command the RSX stops at is
left out in `unkown blend equation`. `call stack limit` records at io address 0,
for which `Start` stands there.

**SpuGroupTests / SpuThreadGroup** - a main is a sequence of calls; the thread
reads its channel, puts what it read and exits, or spins. In `SRR0 masking` a
PPU thread and an exception handler run as well; the signal to the handler is
taken to succeed, its error line (`test_runner.ppu.cpp:54`) is left out.

**SpuEventTests / SpuChannels** - a thread is a list of instructions; the
device's steps (the decrementer expires or wraps, the tag status is updated) and
the interrupt may come between any two. One action executes whatever instruction
is next. The lines "waiting.." are left out.

**MfcTests / Mfc** - likewise. The MFC completes any command of the queue that
no barrier, and no stalled list of its own tag before a barrier, holds up.

**RawSpuTests / RawSpu** - main, the SPU, the interrupt thread and the proxy
queue are four processes over the registers. `sys_timer_sleep(2)` of `mailbox
interrupts (2)` is a wait for the interrupt thread to be quiet.

**KernelTests / Lv2, Services** - main is thread 0, up to four more run one
program. An instruction is one call, a flag access, a branch or a line. `sysCell` prints a
result, `ENSURE_OK` and `ENSURE_VAL` end the process at a wrong one; sleeps
order nothing and are left out. What is printed besides results is left out, and
with it the first two lines of `Main thread joinability`. The results of
`sys_event_queue_create` are in `expected.txt` of `sys_spu_thread_bind_queue`
twice, the program then was not yet the one of `src/`; the two `rsxunmapevent`
have no `expected.txt`: they show the results of their four calls of the driver,
and one event that is no vblank. The queue the RSX tells of it comes with the
context; in the model it is there from the start, as no thread asks for it
earlier. The 0x60 blocks they allocate and map, one like the other, are one
(`MapBlock`). In `rsxunmapevent - sys_memory` an error check looks at the result
of an earlier call (`rsxmain.cpp:144`), so the call there is one whose result is
ignored. Calls that reserve, map or give back memory (`MemoryCall`) succeed, so
the exits behind their checks, and the traps of `RSX base context address 2`,
are instructions of the programs that are never taken. The
queue of the audio is told of a block by `Mix`, as long as a queue is set; that
its destruction unsets it is what the timeout of `expected.txt` shows. Addresses
of the RSX's driver are blocks of one area, numbered in the order they are
mapped. An identifier is a slot and a generation; the loops of `IDM IDs
invalidations` are unrolled for `Objects`, and `Identifiers` states its last
four lines: which identifiers the objects that live one after the other have.
Of its objects that are threads the first lives as thread 1 to the end, each of
the others as thread 2, one at a time (`ThreadOf`).
Memory objects start one generation behind, as `expected.txt` has it.

**FileTests / CellFs** - four tests and `copy_file_` are scripts, a step a call
or a branch on its result; `cellFs IDs`, whose loops compute which slot comes
next, has an action for the body of each loop (`OpenFirst`, `CloseSlot`,
`OpenSlot`), with `j` unsigned as in the code. A file is its size and a directory
the number of its entries; a transfer ends at the last page that is wholly
mapped. `stat_file_`, `write_file_` and their like are the call they wrap and
its line. No test calls `copy_file_`: there, any open, read or write may fail.

## 4. Bounds

| Constant | Value | In the code | Why it is enough |
|---|---|---|---|
| `ToRepeat`, `MaxLosses` | 2, 2 | `to_repeat` = 500, unbounded | a test succeeds at once, at the second try, or loses all its tries; proved for all values |
| `Word` | 4 | 2^32 | a full turn between two looks happens often; proved for all widths |
| `Bits`, `ValidMasks` | 2, 2 | 32, 6 | six iterations: both stops are used, annulled and used again, and the shift overflows twice |
| `PipeDepth` | 8 and 4 | unknown | holds a whole iteration and the start of the next; lets the front end run past a fence; proved for all depths |
| `FrameDepth` | 2 | - | tells no draw, one draw and more apart |
| `Polls` | 8 | 50000 | the poll starts before, during and after whatever changes the count; proved for all |
| `QueueDepth` (Mfc) | 16 | 16 | the real one; proved for all from 2 |
| `QueueDepth` (Lv2), `MaxExpiries` | 2, 2 | 126, unbounded | one event received and one late; the queue fills; proved for all |
| `Words` | labels 64 to 70, and word 1 of 69 | 256 labels of 4 words | those the tests release, with the one that is released at an offset |
| `Objects`, `Slots`, `Generations` | 6, 3, 2 | 512, thousands, 256 | threads take every other slot and come to it again; the generations go round, of threads too; proved for all positive, from two slots |
| `Events` | 3 | 101 | one more than fills the queue, so it is full once and emptied; proved for all |
| `Count`, `FirstFd` | 10, 3 | 10, 3 | the real ones; proved for every `Count` |
| `LastFd` | 20 | unknown | more than is ever open; proved for all |
| `MaxSize`, `Page`, `Chunk` | 10, 2, 2 | 2^64, 4 KiB, 1 MiB | more than is written or mapped; a file of two chunks, the second not full (`DataSize` is 3); an unaligned address leaves one page of two; `MaxSize` proved for all from 3 |
| `GameEntries` | 4 | unknown | more than the three reads after the listing; proved for all |
| `Tests` | all | - | a run starts in any of the tests of its module |
| rounds of `get_exit_status` | 8 | 8 | the real number |

`.cfg` files say `CHECK_DEADLOCK FALSE` because every program ends, by a return,
a stopped RSX or a join for ever; where it ends is what the liveness properties
say.

## 5. What the runs show

Each property has a mutant in `PROJECT.json`: a definition changed as a slip in
the code would change it, under which the property fails.

- **ppu_reservation** - a test that lost fewer reservations than it has tries
  prints the console's result (`ResultsAsExpected`); no schedule makes it print
  a success that is none (`NoFalseSuccess`); the helper touches the shared data
  and holds a reservation only inside `wrap_callback` (`HelperQuiet`); the two
  threads implement `RemoteCall` (`RemoteCallSpec`); the join returns
  (`Termination`).
- **spu_reservation** - the first four lines are those of `expected.txt`
  whatever SPU 1 does (`EventsAsExpected`); the event of the changed line is
  recorded though the line has been reserved again since, and is not a left-over
  (`EventMustBeRecorded`); every store to the shared line is an increment or the
  stop (`NoLostUpdate`); once stored, the stop reaches SPU 1, and with a fair bus
  it is stored and the program ends (`Termination`).
- **write_output_mask** - what is printed for a mask is one draw with that mask
  on a cleared buffer (`PrintsOwnMask`); the RSX never stands on a command about
  to change (`NoStoreUnderTheRsx`); the program ends with each mask tested once
  (`Termination`).
- **gcm_tests** - 29 tests, those with at most one fence: the RSX reads only what
  was recorded and has arrived (`ReadsOnlyWhatIsRecorded`); `gfxFence` orders
  what is before it (`FenceFences`); each ends as the console shows, and those
  that show a frame go on flipping, and the labels of `FIFO Semaphores data` hold
  its "Second buf" when main reads them (`AsOnTheConsole`).
- **gcm_image_in** - the second `gfxFence` of a program does not fence.
- **spu_group_tests** - whatever the thread does meanwhile, no call of a main
  fails and each line is the console's (`AsOnTheConsole`); the count shown is of
  the run just joined (`ShowsThisRun`); only the second join of one run waits
  for ever (`EndsOrWaits`).
- **spu_event_tests** - each thread prints, and ends, stops or stays, as its
  comments and results say, wherever the event arrives (`EndsAsDescribed`): the
  thread that stops with a word in its outgoing mailbox stays there, as
  `results_out_not_empty.PNG` shows ("spu stuck").
- **mfc_tests** - an acknowledgement comes after every stall it is for
  (`AckAfterEveryStall`); the polls of `MFC_WrTagUpdate` never see 0, and threads
  exit, or wait at their barrier after the lines of the console
  (`EndsAsOnTheConsole`).
- **raw_spu_tests** - one word makes ten interrupts or at most one, the proxy
  commands run after their status is read (`AsOnTheConsole`); a main that has
  seen the SPU run returns when it stops (`EndsAsDescribed`).
- **raw_spu_run** - an SPU that stops before main's first look is waited for for
  ever.
- **kernel_tests** - no asserted call fails and the results are the consoles',
  when main returns no other thread has a line to print, and the objects that are
  made one after the other have the identifiers of `expected.txt`
  (`AsOnTheConsole`); no thread is named before it is created
  (`NamesCreatedThreads`); `sig` stays a count of threads (`TypeOK`); each test
  returns, or waits where it must (`EndsOrWaits`): `timer overflow attempt` and
  the two `rsxunmapevent` join a thread that never exits, and `timer state afte
  event queue destruction` polls for a stop that does not come. The tests of the
  audio return as long as a block is mixed now and then.
- **file_tests** - in `cellFs IDs`, each slot holds an open descriptor of its own
  when it is closed, so no number is closed twice, and none is given but the
  lowest (`DescriptorsReused`); what a test opened is closed and what it made is
  removed, `copy_file_` leaves nothing open whatever fails, and its copy is whole
  if nothing does (`LeavesAsDescribed`); each test returns with the results of the
  console, unless the reads of `copy_file_` go on failing (`EndsAsOnTheConsole`).

## 6. Fairness

Every process of the program - main, helper, SPU thread, interrupt thread - has
weak fairness and no more: threads are scheduled. Stores arrive, the RSX reads
and executes, the display refreshes, the MFC goes on, the decrementer of an SPU
runs down, blocks of audio are mixed: weakly fair too, as the tests wait for
nothing else. `FileTests` has one process, which runs. Not fair: losing
a reservation, a timer's expiry, the decrementer's wrap, which takes a minute, a
vblank's event, the choice of which test runs.

Stronger assumptions are hypotheses of the property that needs them:

- `FairBus` (of `Termination`, spu_reservation): SF of "SPU 0 sees the change"
  and "SPU 0's store succeeds". Without it SPU 1 may take the line between each
  of SPU 0's load and store, for ever; the bus arbitrates between the units.
  The first half of `Termination`, `StopIsSeen`, does not need it.
- SF of `SeeItUnmasked` (of `AsOnTheConsole`, gcm_tests): the loop of `FIFO PUT
  masking` ends only if main, sometimes, reads `put` before the RSX masks it.

## 7. Proofs

TLAPS checks these for every value of the constants.

**PpuReservation_proofs**, from `RepeatAssumption` (`ToRepeat` positive,
`MaxLosses` natural). The properties are not inductive: that a store fails after
an asynchronous `write_val` depends on where both threads are and on what the
flag says. `IInv` adds to the types where each thread can be in which test
(`Control`), whose turn it is (`Handoff`), that the callbacks that take the
reservation have taken it by the time of the store (`Taken`), and that each try
that should have succeeded is paid for by a lost reservation (`Counted`).
`Invariance` proves it; `TypeCorrect`, `ResultsAgree`, `SuccessIsTrue`,
`HelperStaysQuiet` follow, and `ImplementsRemoteCall`: each step maps to a step
of `RemoteCall` or a stutter.

**SpuReservation_proofs**, from `WordAssumption` (`Word` > 1). `IInv` adds where
the SPUs and the group are (`Control`), what the event tests have left in the
device at each of their steps (`Testing`), that a word that has moved means a
pending event (`Recorded`), and that a reservation still held means the copy is
of what is in memory (`Fresh`). `TypeCorrect`, `TestsPrintAsExpected`,
`NothingLeftOver`, `LossIsRecorded` and `UpdatesAreKept` follow.

**WriteOutputMask_proofs**, from `WriteOutputMaskAssumption` (`Bits`,
`ValidMasks` and `PipeDepth` positive). That a sample is one draw with its own
mask rests on two stops in one buffer that is rewritten again and again. `IInv`
adds to the types: until the first buffer is recorded, nothing has happened
(`BootInv`); while one is recorded, the RSX has read everything, or jumps to
itself at the end of the last iteration, where the recording stores the jump
that is there already, and its pipe is empty (`ParkInv`); each offset holds what
was recorded, or will when the stores on their way are there (`MemInv`); while
the RSX runs, before the draw nothing is in pipe or frame, between the draw and
the fence exactly one draw is in either, after the fence it is in the frame
(`DrawInv`); and `bit` counts `it` modulo `Bits` + 1, so that the printed masks
are the pairs in order (`CountInv`). There is a lemma per action, and some of
division (`DivMod`, `DivModUnique`, `ShiftFollows`). `Types`,
`RecordsAsideOfTheRsx`, `PrintsItsOwnMask` follow, and `TestsEachMask`: the
safety part of `Termination`.

**GcmTests_proofs**, from `GcmTestsAssumption`, for any `Tests` and any
`PipeDepth`. The programs are evaluated once, into what the proofs need of them
(`AllUnderstood`: where each batch begins and ends, that jumps stay within what
is recorded by then, that a release writes a word). That the RSX reads only what
is recorded and has arrived is not inductive. `IInv` adds to the types
(`Types`) where main can be in which test and batch (`Control`), what each
offset holds or will hold when the stores on their way are there (`Memory`):
nothing is on its way once main has flushed; where get can be, which is put
while main records, so that the second of two batches is recorded behind a RSX
at rest (`Reading`); and, for `fifo_put_masking`, that main goes on only when
the reference says that put has been read (`References`). `TypesHold` and
`ReadsOnlyRecorded` follow. `FenceOrders` has a second invariant, `FenceInv`:
before the wait, the label does not hold the value and nothing before the fence
in the pipe writes it; at the wait, either the pipe ends with the release of
the fence, or the label has the value and the pipe is empty. It has the
hypothesis that `image in` is not among the tests: that one has two fences, and
the run `gcm_image_in` shows the second one failing.

**MfcTests_proofs**, from `MfcTestsAssumption`, for any `Tests`, any
`QueueDepth` from 2 and any `Polls`. The threads are evaluated once, into a
table of where each kind of instruction is (`MFC_WrTagUpdateIs` and its like).
That every list has stalled at an acknowledgement rests on the reads before it,
so `IInv` follows the queue from one instruction to the next: how many lists
have stalled and been read of (`Held`), that one more goes on (`Going`), that
all are released (`Released`). For the threads that acknowledge nothing,
`AtBarrier` and `AtFullBarrier` say that a command is queued behind a list that
has stalled and waits for it (`Barred`), so that the queue never empties, and
that the status of the tag never comes: `UpdateTag` is not possible while the
barrier, whose tag is in the mask, is queued. `Polling` says that the first poll
finds the status of the request before. There is a lemma for each kind of step
of the MFC on each such queue (`IssueOne`, `ReadOne`, `AckAll`, `Proceed...`).
`TypeCorrectness`, `EveryStallSeen` follow, and `BarriersHold`: the safety part
of `EndsAsOnTheConsole`.

**FileTests_proofs**, from `FileTestsAssumption`, for every `Count`, every
`FirstFd` and `LastFd`, every `MaxSize` the data file fits in and every number of
`GameEntries`. About `cellFs IDs`, `IdsInv` says that the slots outside
`ClosedSlots` and `temp_fd` hold the open descriptors, each one (`Accounts`). A
new descriptor is the lowest free one; were it above `FirstFd` + `Count`, all
below would be open, more than there are slots (`FiniteSetTheorems`). That a
round takes no slot twice, from two ends of the array, is `PosInjective`.
`DescriptorsAreReused` follows. About the scripts, `ScriptInv` says which
variables hold an open descriptor before each instruction, and that no other is
open (`Has` of `SdataHolds`, `FlagsHolds` and so on). The number of each is known
from the variable, because a variable that is set takes the lowest number that
those before it leave (`HasMore`), so a close closes what was meant (`HasLess`).
After an open that may fail, as those of `cellFsOpen flags` and `copy_file_`,
what is held depends on the last result. For `copy_file_`, `Copying` says, as
long as nothing has failed, how far both positions are and that the second file
is as long as what has been read of the first, less the part in the buffer.
What the instructions are is stated once per script (`SDATAIs`, `CopyIs`), what a
call does once (`CallDoes`). `TypeCorrectness` and `NothingLeftOpen` follow.

**KernelTests_proofs**, from `KernelTestsAssumption`, for any `Tests`, any
`QueueDepth`, `MaxExpiries`, `Objects`, `Events`, `Slots` and `Generations`. That
a thread is created before it is joined rests on main being past the creation,
which another thread's join of main, the end of main or its return could undo.
`KInv` adds to the types (`Typed`) that a thread is within its program or just
behind it (`Positions`), and for each thing main does first that it lasts: what
main has created is there unless main is at its last join (`Made`), main itself
is there (`MainThere`), and a waiter of `sys_ppu_thread_set_priority` is past
its loop only when the flag is set, which is behind the four creations (`Told`).
The counter of `lv2 lwcond wait timeout` is the number of creations main has
counted less the threads that have counted themselves out (`Counted`): without
the sum, that it does not fall below 0 is not inductive. `Amount` is the same for
the threads that `PPU threads amount IDM` counts. The programs are evaluated
once, into what the proofs need of them (`ProgramsOk`), two of them for any
number of rounds. There is a lemma per conjunct (`MadeKept` and its like).
`TypeCorrectness` and `JoinsCreatedThreads` follow.

That the console is as expected rests on what happened many instructions
earlier, so a second invariant, `CInv`, says for each of the twenty tests how
many lines are shown when main and its thread are at given places (`Shown`, from
tables such as `InfoShown`, `CallShown` and `BindShown`), and what the next line
needs: the marks 117 and the unlocks have left in each mutex (`CallMarks`), what
a call has returned and is printed later, that the timer that stopped has been
disconnected, which queue is bound, what the driver has mapped and where, that
the queue of the audio holds no event of another kind. What is beside the
threads must not disturb it: the timer's expiries, the RSX and the mixing of the
audio (`TimersBeside`, `UnmapBeside`, `AudioBeside`). Each test has a lemma that
its instructions keep its part (`InfoKept`, `BindQueueKept` and its like), from
lemmas of what a kind of instruction does (`Lines`, `Returns`, `Branches`). For
`IDM IDs invalidations`, whose program has any number of objects, `OfKind` says
which slots live and which identifiers are kept when main is at its i-th object
of a kind. The identifier of the i-th is then the slot and the generation that
come next, so `ComesNext` keeps the generations of all the slots of a turn, and
what goes round rests on division (`DivModIs`, `TurnGoesOn`). `ConsolesMatch`
follows: that no check fails, what is shown begins what is expected and is all
of it, in one of the orders there can be, when main returns, nothing is lost at
the end, and each identifier is the one of `Identifiers`.

**SpuGroupTests_proofs**, from `SpuGroupTestsAssumption`, for any `Tests`. What a
line shows was settled by a run of the thread that is over by then, so `IInv`
says for each call of each main where the thread can be and what it has left.
For `get_exit_status`, `JoinedAt(i, k)` does so for the k-th call of the i-th
round: at the join either the thread runs and the exit status is that of the
round before (`CodeBefore`), or it is over with the result of this one (`EndOf`);
`StoppedRound` is the round whose thread never exits, `AskedRound` the one that
asks beside the exit. `ResetsInv` has what waits in the mailbox at each call and
what a run that is past its read has to put (`Waiting`); after the terminated
run nothing is known of that until the next one has read. `Srr0Inv` says that
the thread has written before main resets, and does not write again. Common to
all, the thread is somewhere as long as the group runs (`Together`).
`TypeCorrectness`, `ConsolesMatch` and `CountsAreOfThisRun` follow.

Only model-checked: all liveness (fairness and ENABLED are out of the prover's
reach), with it what a program has printed when it ends (`AsOnTheConsole` of
`GcmTests`, `EndsAsOnTheConsole` of `MfcTests` and `FileTests`), where a test of
`KernelTests` ends or waits (`EndsOrWaits`), `RemoteCall`'s fairness, and
`SpuEventTests` and `RawSpuTests`, whose programs are fixed: there a run goes
through all of them.

## 8. What is not modelled

Straight programs of one actor print what one instruction or one call returns:
PPU and SPU arithmetic, the loader and memory calls, the system libraries. Their
control is a list of calls; there is nothing they could do in another order.
Floating point is outside of what TLC evaluates. Of those that are near to what
is modelled:

- Lock line tests: what a reservation is on a mirror, in a cache-inhibited area
  or at an odd address. The answers of
  `sys_process_is_spu_lock_line_reservation_address` are a table of the kernel's;
  the other tests need a `LockLine` of addresses instead of lines (2, item 9).
- MFC transfers: which bytes a command moves, without a rival (2, item 10).
- `unaligned commands`: the program places no jump, and how `get` comes to be 0
  is not in the code.
- `CellgcmMapMainMemory`, `CellgcmMapMainMemory2`: no results to compare with.
- `sys_rsx_context_iomap`, `iomapping allocation check`, the Zcull tests: tables
  of error codes and default values.
- `cellAudioCreateNotifyEventQueue`, ports of the audio, save data, pads, voice,
  trophies, music: one call after the other, whose results are the library's.
- In `ppu_header.h` the dumps, conversions and the wrappers no modelled test
  uses, in `spu_header.h` the vector helpers, in `rsx_header.h` the address
  arithmetic and file helpers.
- `ppu interrupt thread stack base`: what becomes of an interrupt thread that is
  still at its calls when main destroys the raw SPU is not known from the code or
  its results. It is a hazard of `PROJECT.json` without a property, and there is
  one more: in `restarting spu status bits` (`:72`) the SPU may write its mailbox
  and stop between two reads of main's, and the word is then not shown; no
  comment or result says that it has to be.

`mailbox reches limits - outmbox.1` has a sorting program for its SPU and is
listed with the events, though it raises none.

## 9. Where code, comments and consoles disagree

Shown by a run that TLC finds violated, as `findings`:

1. `image in` fences twice. `gfxFence` resets its label through the engine; when
   the RSX reads the second wait, the reset and the second release can both
   still be behind the transfer, the label has the value of the first fence, and
   the wait passes.
2. `restarting spu status bits` waits for the run bit of an SPU that stops by
   itself: if it is quick, the bit is 0 again before main's first look.

Noticed on the way, without a run of its own:

- `sys_spu_thread_get_exit_status` asks for the thread status right after the
  start. The thread may have returned 8 by then; `expected.txt` ends in 6
  (`AsOnTheConsole` of `SpuGroupTests` leaves that number open).
- `copy_file_` reads until a read gives 0. The helper gives an error code as a
  size when a read fails, so the copy writes that many bytes and tries again; it
  ends only when a read succeeds (`EndsAsOnTheConsole` of `FileTests`).
- `list transfer size` requests the tag status and never reads it, so "the mfc
  didnt stall!" may be printed before the list is done.
- `driver flip` pushes its flip commands with the count 0, which makes nops of
  them; nothing flips (`KeepsFlipping`).
- `npc writes` assigns its second reading to `npc_after_run` (`:163`), and prints
  `npc_after_write_run` without having set it.
- `expected.txt` of the raw `mailbox interrupts` is of an earlier program.
- `expected.txt` of `lv2 lwcond wait timeout` holds one "locking state:0x0" and no
  "sample finished."; the program of `src/` prints two and the end, and so does
  the model. What is in the file begins what the model shows.
- The comments of `Is tm event signaled independent of writes que mark` disagree
  about the answer, so the model leaves it open. Five event tests (`Asking`) ask
  what their results do not say, this one and `mailbox reches limits.1` among
  them, whose line is "didnt stall on threaded spu": of their ends nothing is
  checked.
- `interrupts timing - Copy` and `read event stalling 3` print a register they
  have not set: any value, of which the model has two (`Unset`).
- `timer state afte event queue destruction` waits for a timer that does not
  stop; `timer state info` has the disconnect before its wait, which makes the
  difference.
