------------------------------- MODULE CellFs -------------------------------
(***************************************************************************)
(* The file system as the tests use it and as the consoles show it.  None  *)
(* of it is in the repository.  A file is its size, a directory the number *)
(* of its entries.  Each call has its result as a parameter: an error, and *)
(* a descriptor, an amount or the number of an entry.                      *)
(***************************************************************************)
EXTENDS Integers, FiniteSets

CONSTANTS Paths,
          FirstFd, LastFd,   \* the numbers a descriptor can have
          Overhead,          \* what a container has besides its data
          In,                \* of each path, the directory it is in
          MaxSize            \* bound on the size of a file

VARIABLES fds,    \* of each number: Closed, or the descriptor that has it
          files   \* of each path: Absent or a size

Absent == -1
Descriptors == FirstFd..LastFd
Kinds == {"plain", "sdata", "directory", "closed"}
Descriptor == [path: Paths, kind: Kinds, writable: BOOLEAN, at: 0..MaxSize]
Closed == [path |-> CHOOSE p \in Paths : TRUE, kind |-> "closed", writable |-> FALSE, at |-> 0]
IsOpen(fd) == fd \in Descriptors /\ fds[fd].kind # "closed"

Is(result, err, val) == result.err = err /\ result.val = val
Lesser(a, b) == IF a < b THEN a ELSE b
Greater(a, b) == IF a < b THEN b ELSE a
OnlyFds == UNCHANGED files
Nothing == UNCHANGED <<fds, files>>
-----------------------------------------------------------------------------
(* Descriptors. *)

\* A descriptor has the lowest number that no other has.
Gives(fd, descriptor) ==
  /\ fd \in Descriptors /\ ~IsOpen(fd)
  /\ \A lower \in FirstFd..(fd - 1) : IsOpen(lower)
  /\ fds' = [fds EXCEPT ![fd] = descriptor]

\* O_EXCL does not keep a file that exists from being opened.
cellFsOpen(path, flags, kind, result) ==
  \/ /\ files[path] = Absent /\ "CREAT" \notin flags
     /\ Is(result, "ENOENT", 0) /\ Nothing
  \/ /\ files[path] # Absent \/ "CREAT" \in flags
     /\ result.err = "OK"
     /\ Gives(result.val, [path |-> path, kind |-> kind, writable |-> "RDWR" \in flags, at |-> 0])
     /\ files' = IF files[path] = Absent \/ "TRUNC" \in flags
                 THEN [files EXCEPT ![path] = 0] ELSE files

cellFsSdataOpenByFd(fd, flags, result) ==
  \/ "RDWR" \in flags /\ Is(result, "EINVAL", 0) /\ Nothing
  \/ /\ "RDWR" \notin flags /\ IsOpen(fd)
     /\ result.err = "OK"
     /\ Gives(result.val, [fds[fd] EXCEPT !.kind = "sdata", !.writable = FALSE, !.at = 0])
     /\ OnlyFds

cellFsOpendir(path, result) ==
  /\ files[path] # Absent /\ result.err = "OK"
  /\ Gives(result.val, [path |-> path, kind |-> "directory", writable |-> FALSE, at |-> 0])
  /\ OnlyFds

cellFsClose(fd, result) ==
  /\ Is(result, IF IsOpen(fd) THEN "OK" ELSE "EBADF", 0)
  /\ fds' = IF IsOpen(fd) THEN [fds EXCEPT ![fd] = Closed] ELSE fds
  /\ OnlyFds
-----------------------------------------------------------------------------
(* Data.  mapped is how much of the buffer lies in whole mapped pages: a   *)
(* transfer stops there.                                                   *)

Seek(fd, at) == [fds EXCEPT ![fd].at = Lesser(at, MaxSize)]
Size(fd) == files[fds[fd].path]

\* A write of nothing needs no descriptor that can be written, but at an offset.
WriteError(fd, n, mapped, needed) ==
  IF ~IsOpen(fd) \/ (~fds[fd].writable /\ (n > 0 \/ needed)) THEN "EBADF"
  ELSE IF n > 0 /\ mapped = 0 THEN "EFAULT" ELSE "OK"

Extend(fd, at, n) ==
  files' = [files EXCEPT ![fds[fd].path] = Lesser(Greater(@, at + n), MaxSize)]

cellFsWrite(fd, n, mapped, result) ==
  LET error == WriteError(fd, n, mapped, FALSE) IN
    IF error # "OK" THEN Is(result, error, 0) /\ Nothing
    ELSE /\ Is(result, "OK", Lesser(n, mapped))
         /\ Extend(fd, fds[fd].at, Lesser(n, mapped))
         /\ fds' = Seek(fd, fds[fd].at + Lesser(n, mapped))

cellFsWriteWithOffset(fd, n, mapped, result) ==
  LET error == WriteError(fd, n, mapped, TRUE) IN
    IF error # "OK" THEN Is(result, error, 0) /\ Nothing
    ELSE /\ Is(result, "OK", Lesser(n, mapped))
         /\ Extend(fd, 0, Lesser(n, mapped))
         /\ UNCHANGED fds

\* What a read from at gets; at the end of the file the buffer does not matter.
Readable(fd, at, n, mapped) == Lesser(Lesser(n, mapped), Greater(Size(fd) - at, 0))

cellFsRead(fd, n, mapped, result) ==
  /\ IsOpen(fd)
  /\ Is(result, "OK", Readable(fd, fds[fd].at, n, mapped))
  /\ fds' = Seek(fd, fds[fd].at + result.val)
  /\ OnlyFds

cellFsReadWithOffset(fd, n, mapped, result) ==
  /\ IsOpen(fd)
  /\ Is(result, "OK", Readable(fd, 0, n, mapped))
  /\ Nothing

cellFsLseek(fd, result) == /\ Is(result, IF IsOpen(fd) THEN "OK" ELSE "EBADF", 0)
                           /\ fds' = IF IsOpen(fd) THEN Seek(fd, 0) ELSE fds
                           /\ OnlyFds

\* A container's data is shorter than the container.
cellFsFstat(fd, result) ==
  /\ IsOpen(fd)
  /\ Is(result, "OK", IF fds[fd].kind = "sdata" THEN Size(fd) - Overhead ELSE Size(fd))
  /\ Nothing
-----------------------------------------------------------------------------
(* Directories.  A directory with nothing in it has two entries. *)

Entries(directory) == files[directory]
                      + Cardinality({path \in Paths : In[path] = directory /\ files[path] # Absent})

\* The next entry, and 0 for ever after the last.
NextEntry(fd, result) ==
  LET more == fds[fd].at < Entries(fds[fd].path) IN
    /\ IsOpen(fd)
    /\ Is(result, "OK", IF more THEN fds[fd].at + 1 ELSE 0)
    /\ fds' = IF more THEN Seek(fd, fds[fd].at + 1) ELSE fds
    /\ OnlyFds

Become(path, size) == files' = [files EXCEPT ![path] = size] /\ UNCHANGED fds

cellFsMkdir(path, result) ==
  IF files[path] = Absent THEN Is(result, "OK", 0) /\ Become(path, 2)
                          ELSE Is(result, "EEXIST", 0) /\ Nothing

cellFsUnlink(path, result) ==
  IF files[path] = Absent THEN Is(result, "ENOENT", 0) /\ Nothing
                          ELSE Is(result, "OK", 0) /\ Become(path, Absent)

cellFsRmdir(path, result) ==
  IF Entries(path) > 2 THEN Is(result, "ENOTEMPTY", 0) /\ Nothing
                       ELSE cellFsUnlink(path, result)

\* A call that fails leaves everything as it was.
Fails(result) == Is(result, "EIO", 0) /\ Nothing
=============================================================================
