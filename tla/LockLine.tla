------------------------------ MODULE LockLine ------------------------------
(***************************************************************************)
(* The part of the SPU's memory controller that the reservation tests      *)
(* exercise: one reservation per SPU, the commands that respect or break   *)
(* it, and the "reservation lost" event with its mask and channel count.   *)
(* None of it is in the repository; it is what the tests rely on and what  *)
(* the console printed.  A client conjoins these operators in its actions. *)
(***************************************************************************)
EXTENDS Naturals

CONSTANTS Spus,      \* the SPU threads
          Lines,     \* the 128 byte lines of main memory
          NoLine     \* no reservation

VARIABLES mem,       \* the contents of each line
          res,       \* the line each SPU has reserved
          pending,   \* is MFC_LLR_LOST_EVENT raised and not acknowledged
          mask,      \* is the event enabled by SPU_WrEventMask
          count      \* channel count of SPU_RdEventStat

DeviceInit == /\ res = [s \in Spus |-> NoLine]
              /\ pending = [s \in Spus |-> FALSE]
              /\ mask = [s \in Spus |-> FALSE]
              /\ count = [s \in Spus |-> 0]

DeviceOK == /\ res \in [Spus -> Lines \cup {NoLine}]
            /\ pending \in [Spus -> BOOLEAN]
            /\ mask \in [Spus -> BOOLEAN]
            /\ count \in [Spus -> 0..1]
-----------------------------------------------------------------------------
(* The SPUs in S get the event; an enabled event makes the status readable. *)
Raise(S) ==
  /\ pending' = [s \in Spus |-> s \in S \/ pending[s]]
  /\ count' = [s \in Spus |-> IF s \in S /\ mask[s] THEN 1 ELSE count[s]]
  /\ UNCHANGED mask

Holders(l) == {s \in Spus : res[s] = l}

\* GETLLAR: moving a reservation to another line raises no event.
Getllar(s, l) == /\ res' = [res EXCEPT ![s] = l]
                 /\ UNCHANGED <<mem, pending, mask, count>>

\* v is stored to l: the SPUs in lost lose their reservation and are told,
\* the SPU s loses its own silently.
StoreLine(s, l, v, lost) ==
  /\ mem' = [mem EXCEPT ![l] = v]
  /\ res' = [u \in Spus |-> IF u = s \/ u \in lost THEN NoLine ELSE res[u]]
  /\ Raise(lost)

\* PUTLLC stores only if s still holds the reservation, and uses it up.
Putllc(s, l, v) ==
  \/ /\ res[s] = l
     /\ StoreLine(s, l, v, Holders(l) \ {s})
  \/ /\ res[s] # l
     /\ res' = [res EXCEPT ![s] = NoLine]
     /\ UNCHANGED <<mem, pending, mask, count>>

\* PUTLLUC stores always; the others lose the reservation, s is not told.
Putlluc(s, l, v) == StoreLine(s, l, v, Holders(l) \ {s})

\* A PUT breaks every reservation of the line, that of s too.
Put(s, l, v) == /\ mem' = [mem EXCEPT ![l] = v]
                /\ res' = [u \in Spus |-> IF res[u] = l THEN NoLine ELSE res[u]]
                /\ Raise(Holders(l))
-----------------------------------------------------------------------------
(* The event channels.  "An event ack doesn't decrement event stat count": *)
(* the count is 1 until the status is read, even when nothing is pending.  *)
WriteMask(s) == /\ mask' = [mask EXCEPT ![s] = TRUE]
                /\ count' = [count EXCEPT ![s] = IF pending[s] THEN 1 ELSE @]
                /\ UNCHANGED <<mem, res, pending>>

WriteAck(s) == /\ pending' = [pending EXCEPT ![s] = FALSE]
               /\ UNCHANGED <<mem, res, mask, count>>

\* "spu_readchcnt(SPU_RdEventStat) ? spu_readch(SPU_RdEventStat) : 0"
Status(s) == count[s] = 1 /\ pending[s] /\ mask[s]
ReadStatus(s) == /\ count' = [count EXCEPT ![s] = 0]
                 /\ UNCHANGED <<mem, res, pending, mask>>
=============================================================================
