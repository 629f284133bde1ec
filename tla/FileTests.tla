------------------------------ MODULE FileTests ------------------------------
(***************************************************************************)
(* The tests of the file system, and the helpers of ppu_header.h they go   *)
(* through; among these copy_file_, whose calls may fail.  One test opens  *)
(* and closes a file in an order it computes; the others are scripts.      *)
(* cellFsFsync, which the helpers call after each success, moves nothing   *)
(* that is modelled.                                                       *)
(***************************************************************************)
EXTENDS Integers, Sequences, FiniteSets

CONSTANTS Tests,            \* the tests to run
          Count,            \* how many descriptors main keeps in fds: 10
          FirstFd, LastFd,  \* see CellFs
          MaxSize,
          GameEntries       \* how many entries /dev_hdd0/game/ has

Paths == {"temp", "sdata", "file.h", "testdir", "txt.txt", "MyDir", "game", "dst"}
In == [path \in Paths |-> CASE path = "file.h" -> "testdir" [] path = "txt.txt" -> "MyDir"
                            [] OTHER -> "/"]
Overhead == 1
DataSize == 3

VARIABLES fds, files   \* see CellFs
INSTANCE CellFs

VARIABLES test,      \* the test that runs
          pc,        \* the next instruction of a script
          local,     \* its descriptors
          ret,       \* the result of the last call
          amount,    \* stat.st_size or read_size
          held,      \* fds, of the test that has an array of them
          temp_fd,
          phase, variant, i, j,
          failed,    \* an ENSURE has ended the process
          error,     \* a call of copy_file_ has failed
          console    \* the results that have been printed, but for those of copy_file_

script == <<pc, local, amount>>
loops == <<held, temp_fd, phase, variant, i, j>>
vars == <<fds, files, test, script, ret, loops, failed, error, console>>
-----------------------------------------------------------------------------
(* Instructions.  A jump is relative.                                      *)

Locals == 0..4
None == -1   \* the descriptor -1
Saved == -1  \* the amount main has kept
All == MaxSize

\* fd is a variable of main's; size and mapped are those of a transfer.
Op(op, fd) == [op |-> op, path |-> "temp", fd |-> fd, flags |-> {}, size |-> 0, mapped |-> All,
               prints |-> FALSE, needs |-> "nothing"]
OnPath(op, path, fd) == [Op(op, fd) EXCEPT !.path = path]
Transfer(op, fd, size) == [Op(op, fd) EXCEPT !.size = size]
Jump(condition, by) == [Op(condition, 0) EXCEPT !.size = by]
Skip(by) == Jump("always", by)
Exit == Op("exit", 0)
ReturnError == Op("return_error", 0)

\* Its result is printed; it has to be CELL_OK, or all that was asked for, or
\* the process ends.
cellFunc(call) == [call EXCEPT !.prints = TRUE]
ENSURE_OK(call) == [call EXCEPT !.needs = "OK"]
ENSURE_VAL(call) == [cellFunc(call) EXCEPT !.needs = "whole"]

Open(path, flags, fd) == [OnPath("open", path, fd) EXCEPT !.flags = flags]
Close(fd) == Op("close", fd)
open_file_(path, flags, fd) == cellFunc(Open(path, flags, fd))
open_sdata(path, flags, fd) == cellFunc([Open(path, flags, fd) EXCEPT !.op = "open_sdata"])
OpenByFd(fd, flags, to) == cellFunc([Op("open_by_fd", fd) EXCEPT !.flags = flags, !.size = to])
write_file_(fd, size) == cellFunc(Transfer("write", fd, size))
write_off_file_(fd, size) == cellFunc(Transfer("write_at", fd, size))
read_file_(fd, size) == cellFunc(Transfer("read", fd, size))
read_off_file_(fd, size) == cellFunc(Transfer("read_at", fd, size))
stat_file_(fd) == cellFunc(Op("fstat", fd))
-----------------------------------------------------------------------------
(* The scripts. *)

\* src_fd is 0, as norm_fd is later; temp_fd 1, norm_rw_fd 2, sdata_fd 3 and
\* sdata_fd_x2 4.
SDATA ==
  <<open_file_("sdata", {"CREAT"}, 0), open_file_("temp", {"CREAT", "RDWR"}, 1),
    ENSURE_OK(Op("fstat", 0)), ENSURE_VAL(Transfer("read", 0, Saved)), ENSURE_OK(Close(0)),
    ENSURE_VAL(Transfer("write", 1, Saved)), ENSURE_OK(Close(1)),
    open_file_("temp", {}, 0), open_file_("temp", {"RDWR"}, 2), open_sdata("temp", {"RDWR"}, 3),
    stat_file_(0), stat_file_(3), OpenByFd(2, {"RDWR"}, 4), OpenByFd(2, {}, 4), stat_file_(4),
    write_file_(None, 0),
    write_file_(0, 0), write_file_(0, 1), write_file_(3, 0), write_file_(3, 1),
    write_file_(4, 0), write_file_(4, 1),
    write_off_file_(0, 0), write_off_file_(0, 1), write_off_file_(3, 0), write_off_file_(3, 1),
    write_off_file_(4, 0), write_off_file_(4, 1)>>

\* "Ensure file does not exist"
OpenFlags(flags) ==
  <<OnPath("unlink", "file.h", 0), cellFunc(Open("file.h", flags, 0)), Jump("ok", 6),
    ENSURE_OK(Open("file.h", {"RDWR", "CREAT"}, 0)), Close(0),
    cellFunc(Open("file.h", flags, 0)), Close(0), Skip(2), Close(0)>>

cellFsOpen_flags ==
  <<OnPath("mkdir", "testdir", 0), Jump("made", 2), Exit>>
  \o OpenFlags({"EXCL", "RDWR"}) \o OpenFlags({"EXCL", "TRUNC", "RDWR"})
  \o OpenFlags({"EXCL", "APPEND"})
  \o <<OnPath("unlink", "file.h", 0), OnPath("rmdir", "testdir", 0)>>

\* Mutant: the directory is read once more without a look at nread.
Readdir_Unchecked(path) ==
  <<ENSURE_OK(OnPath("opendir", path, 0)), cellFunc(Op("entry", 0)), cellFunc(Op("entry", 0)),
    Jump("more", -2), ENSURE_OK(Op("closedir", 0))>>

Readdir(path) ==
  <<ENSURE_OK(OnPath("opendir", path, 0)), cellFunc(Op("entry", 0)), Jump("more", -1),
    cellFunc(Op("entry", 0)), ENSURE_OK(Op("closedir", 0))>>

\* "Two entries": the buffer has room for them, each call gives one.
GetDirectoryEntries ==
  <<ENSURE_OK(OnPath("mkdir", "MyDir", 0)), ENSURE_OK(Open("txt.txt", {"CREAT"}, 0)),
    ENSURE_OK(Close(0)), ENSURE_OK(OnPath("opendir", "MyDir", 0)), cellFunc(Op("entry", 0)),
    Jump("more", -1), ENSURE_OK(Op("closedir", 0))>>
  \o Readdir("MyDir") \o Readdir("MyDir") \o Readdir("MyDir")
  \o Readdir("game") \o Readdir("game") \o Readdir("game")

\* Two pages of two units are mapped; what a transfer can use is whole pages.
Page == 2
Mapped(address) == Page * ((2 * Page - address) \div Page)
UsingAddress(address) ==
  LET At(call) == [call EXCEPT !.mapped = Mapped(address)] IN
    <<OnPath("unlink", "temp", 0), ENSURE_OK(Open("temp", {"CREAT", "RDWR"}, 0)),
      At(write_file_(0, 2 * Page)), At(write_file_(0, All)), At(write_off_file_(0, All)),
      cellFunc(ENSURE_OK(Op("fstat", 0))), ENSURE_OK(Op("lseek", 0)), At(read_file_(0, Saved)),
      ENSURE_OK(Op("lseek", 0)), At(read_file_(0, All)), At(read_off_file_(0, All)),
      ENSURE_OK(Close(0))>>

\* addr1, the second page, their unaligned neighbours, and what is not mapped.
memory_bound == UsingAddress(0) \o UsingAddress(Page) \o UsingAddress(1)
                \o UsingAddress(Page + 1) \o UsingAddress(2 * Page)
-----------------------------------------------------------------------------
(* copy_file_, which no test calls.                                        *)

Chunk == 2   \* stands for 0x100000

\* Mutant: nothing is closed when the second file cannot be opened.
copy_file_Leaves ==
  <<open_file_("sdata", {}, 0), Jump("ok", 2), ReturnError,
    open_file_("dst", {"CREAT", "RDWR", "TRUNC"}, 1), Jump("ok", 3), Skip(1), ReturnError,
    read_file_(0, Chunk), Jump("none", 3), write_file_(1, Saved), Skip(-3),
    Close(1), Close(0)>>

\* Mutant: the next part is written without being read.
copy_file_NoRead ==
  <<open_file_("sdata", {}, 0), Jump("ok", 2), ReturnError,
    open_file_("dst", {"CREAT", "RDWR", "TRUNC"}, 1), Jump("ok", 3), Close(0), ReturnError,
    read_file_(0, Chunk), Jump("none", 3), write_file_(1, Saved), Skip(-2),
    Close(1), Close(0)>>

\* It reads until a read gives 0: one that fails does not.
copy_file_ ==
  <<open_file_("sdata", {}, 0), Jump("ok", 2), ReturnError,
    open_file_("dst", {"CREAT", "RDWR", "TRUNC"}, 1), Jump("ok", 3), Close(0), ReturnError,
    read_file_(0, Chunk), Jump("none", 3), write_file_(1, Saved), Skip(-3),
    Close(1), Close(0)>>

Scripts == [SDATA |-> SDATA, cellFsOpen_flags |-> cellFsOpen_flags,
            GetDirectoryEntries |-> GetDirectoryEntries, memory_bound |-> memory_bound,
            copy_file_ |-> copy_file_]

ASSUME FileTestsAssumption ==
  /\ Tests \subseteq DOMAIN Scripts \cup {"cellFs_IDs"}
  /\ Count \in Nat \ {0} /\ FirstFd \in Nat /\ LastFd \in Nat
  /\ MaxSize \in Nat /\ DataSize <= MaxSize /\ GameEntries \in 0..MaxSize

Returned == IF test = "cellFs_IDs" THEN phase = "done" ELSE pc > Len(Scripts[test])
Instruction == Scripts[test][pc]

\* The data file and the game directory are there before.
Init == /\ fds = [fd \in Descriptors |-> Closed]
        /\ files = [path \in Paths |-> CASE path = "sdata" -> DataSize [] path = "game" -> GameEntries
                                         [] OTHER -> Absent]
        /\ test \in Tests
        /\ pc = 1 /\ local = [v \in Locals |-> None] /\ amount = 0
        /\ held = [k \in 0..(Count - 1) |-> None] /\ temp_fd = None
        /\ phase = "temp" /\ variant = 1 /\ i = 0 /\ j = 0
        /\ ret = [err |-> "OK", val |-> 0] /\ failed = FALSE /\ error = FALSE /\ console = <<>>
-----------------------------------------------------------------------------
(* A script runs.                                                          *)

Errors == {"OK", "ENOENT", "EINVAL", "EBADF", "EFAULT", "EEXIST", "ENOTEMPTY", "EIO"}
Values == 0..Greater(MaxSize, LastFd)
Results == [err: Errors, val: Values]

CanRun == ~failed /\ ~Returned /\ test # "cellFs_IDs"
Fd(call) == IF call.fd = None THEN None ELSE local[call.fd]
Amount(call) == IF call.size = Saved THEN amount ELSE call.size

Target(call) == IF call.op = "open_by_fd" THEN call.size ELSE call.fd

Opens == {"open", "open_sdata", "open_by_fd", "opendir"}
Calls(call, result) ==
  \/ call.op = "open" /\ cellFsOpen(call.path, call.flags, "plain", result)
  \/ call.op = "open_sdata" /\ cellFsOpen(call.path, call.flags, "sdata", result)
  \/ call.op = "open_by_fd" /\ cellFsSdataOpenByFd(Fd(call), call.flags, result)
  \/ call.op = "opendir" /\ cellFsOpendir(call.path, result)
  \/ call.op \in {"close", "closedir"} /\ cellFsClose(Fd(call), result)
  \/ call.op = "write" /\ cellFsWrite(Fd(call), Amount(call), call.mapped, result)
  \/ call.op = "write_at" /\ cellFsWriteWithOffset(Fd(call), Amount(call), call.mapped, result)
  \/ call.op = "read" /\ cellFsRead(Fd(call), Amount(call), call.mapped, result)
  \/ call.op = "read_at" /\ cellFsReadWithOffset(Fd(call), Amount(call), call.mapped, result)
  \/ call.op = "lseek" /\ cellFsLseek(Fd(call), result)
  \/ call.op = "fstat" /\ cellFsFstat(Fd(call), result)
  \/ call.op = "entry" /\ NextEntry(Fd(call), result)
  \/ call.op = "mkdir" /\ cellFsMkdir(call.path, result)
  \/ call.op = "unlink" /\ cellFsUnlink(call.path, result)
  \/ call.op = "rmdir" /\ cellFsRmdir(call.path, result)

\* The calls of copy_file_ may fail, but for a close.
MayFail(call) == test = "copy_file_" /\ call.op \in {"open", "read", "write"}

\* A size that is an error code, as a u64, is more than there is.
AsSize(result) == IF result.err = "OK" THEN result.val ELSE All

Meets(result, call) == \/ call.needs = "nothing"
                       \/ call.needs = "OK" /\ result.err = "OK"
                       \/ call.needs = "whole" /\ result = [err |-> "OK", val |-> Amount(call)]

Keeps == {"fstat", "read"}

Call == /\ CanRun
        /\ LET call == Instruction IN
             \E result \in Results :
               /\ \/ Calls(call, result)
                  \/ MayFail(call) /\ Fails(result)
               /\ ret' = result
               /\ local' = IF call.op \in Opens /\ result.err = "OK"
                           THEN [local EXCEPT ![Target(call)] = result.val] ELSE local
               /\ amount' = IF call.op \in Keeps THEN AsSize(result) ELSE amount
               /\ console' = IF call.prints /\ test # "copy_file_" THEN Append(console, result) ELSE console
               /\ failed' = ~Meets(result, call)
               /\ error' = (error \/ (test = "copy_file_" /\ result.err # "OK"))
        /\ pc' = pc + 1
        /\ UNCHANGED <<test, loops>>

Holds(condition) == \/ condition = "always"
                    \/ condition = "ok" /\ ret.err = "OK"
                    \/ condition = "made" /\ ret.err \in {"OK", "EEXIST"}
                    \/ condition = "more" /\ ret.val > 0
                    \/ condition = "none" /\ amount = 0
Conditions == {"always", "ok", "made", "more", "none"}

Branch == /\ CanRun /\ Instruction.op \in Conditions
          /\ pc' = IF Holds(Instruction.op) THEN pc + Instruction.size ELSE pc + 1
          /\ UNCHANGED <<fds, files, test, local, ret, amount, loops, failed, error, console>>

\* copy_file_ returns the error it met; a test that cannot begin exits.
Leave == /\ CanRun /\ Instruction.op \in {"return_error", "exit"}
         /\ pc' = Len(Scripts[test]) + 1
         /\ failed' = (Instruction.op = "exit")
         /\ UNCHANGED <<fds, files, test, local, ret, amount, loops, error, console>>
-----------------------------------------------------------------------------
(* cellFs IDs: the i + 1 slots of a round are closed, then opened again in  *)
(* the same order; it takes one end of the array and the other in turns.   *)

Slots == 0..(Count - 1)

Pos(v, x) == IF (x % 2 = 0) = (v = 1) THEN x \div 2 ELSE Count - 1 - (x \div 2)

InPhase(p) == test = "cellFs_IDs" /\ phase = p /\ ~failed

OpenFile(flags, fd) == /\ ret' = [err |-> "OK", val |-> fd]
                       /\ cellFsOpen("temp", flags, "plain", ret')

OpenTemp == /\ InPhase("temp")
            /\ \E fd \in Descriptors : /\ OpenFile({"CREAT", "RDWR", "TRUNC"}, fd)
                                       /\ temp_fd' = fd
            /\ phase' = "first"
            /\ UNCHANGED <<test, script, held, variant, i, j, failed, error, console>>

OpenFirst == /\ InPhase("first")
             /\ \E fd \in Descriptors : /\ OpenFile({}, fd)
                                        /\ held' = [held EXCEPT ![i] = fd]
             /\ console' = Append(console, ret')
             /\ IF i + 1 < Count THEN i' = i + 1 /\ UNCHANGED phase
                                 ELSE i' = 0 /\ phase' = "close"
             /\ UNCHANGED <<test, script, temp_fd, variant, j, failed, error>>

\* The loops over j end when it passes 0, unsigned as it is.
CloseSlot == /\ InPhase("close")
             /\ \E result \in Results : /\ cellFsClose(held[Pos(variant, j)], result)
                                        /\ ret' = result
                                        /\ failed' = (result.err # "OK")
             /\ IF j > 0 THEN j' = j - 1 /\ UNCHANGED phase
                         ELSE j' = i /\ phase' = "open"
             /\ UNCHANGED <<test, script, held, temp_fd, variant, i, error, console>>

\* Mutant: a round more.
NextRound_OneMore == IF i < Count
                     THEN phase' = "close" /\ i' = i + 1 /\ j' = i + 1 /\ UNCHANGED variant
                     ELSE IF variant = 1 THEN phase' = "close" /\ i' = 0 /\ j' = 0 /\ variant' = 2
                     ELSE phase' = "done" /\ UNCHANGED <<i, j, variant>>

NextRound == IF i + 1 < Count
             THEN phase' = "close" /\ i' = i + 1 /\ j' = i + 1 /\ UNCHANGED variant
             ELSE IF variant = 1 THEN phase' = "close" /\ i' = 0 /\ j' = 0 /\ variant' = 2
             ELSE phase' = "done" /\ UNCHANGED <<i, j, variant>>

\* Mutant: the slots are opened from one end on.
OpenSlot_InOrder ==
  /\ InPhase("open")
  /\ \E fd \in Descriptors : /\ OpenFile({}, fd)
                             /\ held' = [held EXCEPT ![j] = fd]
  /\ console' = Append(console, ret')
  /\ IF j > 0 THEN j' = j - 1 /\ UNCHANGED <<phase, variant, i>>
              ELSE NextRound
  /\ UNCHANGED <<test, script, temp_fd, failed, error>>

OpenSlot == /\ InPhase("open")
            /\ \E fd \in Descriptors : /\ OpenFile({}, fd)
                                       /\ held' = [held EXCEPT ![Pos(variant, j)] = fd]
            /\ console' = Append(console, ret')
            /\ IF j > 0 THEN j' = j - 1 /\ UNCHANGED <<phase, variant, i>>
                        ELSE NextRound
            /\ UNCHANGED <<test, script, temp_fd, failed, error>>

Next == \/ Call \/ Branch \/ Leave
        \/ OpenTemp \/ OpenFirst \/ CloseSlot \/ OpenSlot

\* Main runs.
Spec == Init /\ [][Next]_vars /\ WF_vars(Next)
-----------------------------------------------------------------------------
TypeOK == /\ fds \in [Descriptors -> Descriptor]
          /\ files \in [Paths -> {Absent} \cup 0..MaxSize]
          /\ test \in Tests
          /\ pc \in Nat \ {0} /\ local \in [Locals -> {None} \cup Descriptors]
          /\ amount \in 0..MaxSize
          /\ held \in [Slots -> {None} \cup Descriptors] /\ temp_fd \in {None} \cup Descriptors
          /\ phase \in {"temp", "first", "close", "open", "done"}
          /\ variant \in {1, 2} /\ i \in Slots /\ j \in Slots
          /\ ret \in Results /\ {failed, error} \subseteq BOOLEAN /\ console \in Seq(Results)

\* The slots whose descriptor is closed now.
ClosedSlots == IF phase \in {"temp", "first"} THEN i..(Count - 1)
               ELSE IF phase = "close" THEN {Pos(variant, x) : x \in (j + 1)..i}
               ELSE IF phase = "open" THEN {Pos(variant, x) : x \in 0..j}
               ELSE {}

\* cellFs IDs: no two slots hold one descriptor and each holds one that is open,
\* so that none is closed twice; and as a descriptor takes the lowest number that
\* is free, all ever given are the Count + 1 lowest.
DescriptorsReused ==
  test = "cellFs_IDs" =>
    /\ \A k \in Slots \ ClosedSlots :
         /\ IsOpen(held[k]) /\ held[k] # temp_fd
         /\ \A l \in Slots \ ClosedSlots : k # l => held[k] # held[l]
    /\ \A fd \in Descriptors : IsOpen(fd) => fd <= FirstFd + Count

\* When a test returns, what it has opened is closed, but for what SDATA and
\* cellFs IDs keep; cellFsOpen flags has removed its file and its directory; and
\* copy_file_ has closed both files whatever has failed, and the copy is whole if
\* nothing has.
Open_fds == {fd \in Descriptors : IsOpen(fd)}
Kept == [t \in {"SDATA", "cellFs_IDs"} |-> FirstFd..(FirstFd + IF t = "SDATA" THEN 3 ELSE Count)]
LeavesAsDescribed ==
  (Returned /\ ~failed) =>
    /\ Open_fds = IF test \in DOMAIN Kept THEN Kept[test] ELSE {}
    /\ test = "cellFsOpen_flags" => files["file.h"] = Absent /\ files["testdir"] = Absent
    /\ (test = "copy_file_" /\ ~error) => files["dst"] = files["sdata"]

\* What the expected.txt show, in the order it is printed.
OK(val) == [err |-> "OK", val |-> val]
Error(err) == [err |-> err, val |-> 0]
OKs(vals) == [n \in DOMAIN vals |-> OK(vals[n])]
Listed == OKs(<<1, 2, 3, 0, 0>>)
GameListed == OKs([n \in 1..(GameEntries + 2) |-> IF n <= GameEntries THEN n ELSE 0])
Transferred(whole) == OKs(<<whole, whole, whole, 2 * whole, whole, whole, whole>>)
NotMapped == <<Error("EFAULT"), Error("EFAULT"), Error("EFAULT"), OK(0), OK(0), OK(0), OK(0)>>

Expected ==
  [SDATA |-> OKs(<<3, 4, 3, 3, 3, 4, 5, 3, 2>>) \o <<Error("EINVAL"), OK(6), OK(2)>>
             \o <<Error("EBADF"), OK(0), Error("EBADF"), OK(0), OK(1), OK(0), Error("EBADF")>>
             \o <<Error("EBADF"), Error("EBADF"), OK(0), OK(1), Error("EBADF"), Error("EBADF")>>,
   cellFsOpen_flags |-> <<Error("ENOENT"), OK(3), Error("ENOENT"), OK(3), Error("ENOENT"), OK(3)>>,
   GetDirectoryEntries |-> OKs(<<1, 2, 3, 0>>) \o Listed \o Listed \o Listed
                           \o GameListed \o GameListed \o GameListed,
   memory_bound |-> Transferred(2 * Page) \o Transferred(Page) \o Transferred(Page)
                    \o NotMapped \o NotMapped,
   cellFs_IDs |->
     OKs(<<4, 5, 6, 7, 8, 9, 10, 11, 12, 13,
           4, 4, 13, 4, 5, 13, 4, 5, 12, 13, 4, 5, 6, 12, 13, 4, 5, 6, 11, 12, 13,
           4, 5, 6, 7, 11, 12, 13, 4, 5, 6, 7, 10, 11, 12, 13, 4, 5, 6, 7, 8, 10, 11, 12, 13,
           4, 5, 6, 7, 8, 9, 10, 11, 12, 13,
           12, 12, 13, 10, 12, 13, 10, 11, 12, 13, 8, 10, 11, 12, 13, 8, 9, 10, 11, 12, 13,
           6, 8, 9, 10, 11, 12, 13, 6, 7, 8, 9, 10, 11, 12, 13, 4, 6, 7, 8, 9, 10, 11, 12, 13,
           4, 5, 6, 7, 8, 9, 10, 11, 12, 13>>),
   copy_file_ |-> <<>>]

\* Every test returns having printed that, unless a read of copy_file_ fails again
\* and again: it takes the error for a size, and goes on.
ReadFails == test = "copy_file_" /\ ret.err = "EIO" /\ Instruction.op = "none"
EndsAsOnTheConsole == \/ <>[](Returned /\ ~failed /\ console = Expected[test])
                      \/ []<>(CanRun /\ ReadFails)
=============================================================================
