--------------------------------- MODULE Mfc ---------------------------------
(***************************************************************************)
(* The memory flow controller of an SPU: a queue of commands that complete *)
(* in any order their tags and barriers allow, lists of transfers that     *)
(* stall and notify, and the tag status.  It is as the tests use it and    *)
(* their results describe it.                                              *)
(***************************************************************************)
EXTENDS Naturals, Sequences

CONSTANT QueueDepth   \* 16

VARIABLES queue,      \* the commands that are not complete
          stallstat,  \* MFC_RdListStallStat: the tags of lists that stalled
          tagmask,    \* MFC_WrTagMask
          update,     \* the request of MFC_WrTagUpdate that is not served yet
          tagstat     \* the count of MFC_RdTagStat

Tags == 0..31
NoUpdate == "none"
UpdateAll == "all"
NoTags == {}

Idle == queue = <<>> /\ stallstat = {} /\ tagmask = NoTags /\ update = NoUpdate /\ tagstat = 0

\* left has for each transfer to do whether it stalls and notifies.
List(tag, left) == [kind |-> "list", tag |-> tag, left |-> left, stalled |-> FALSE]
Transfer(tag) == List(tag, <<FALSE>>)
Barrier(tag) == [Transfer(tag) EXCEPT !.kind = "barrier"]
Sync(tag) == [Transfer(tag) EXCEPT !.kind = "sync"]

FreeSlots == QueueDepth - Len(queue)

Issue(command) == /\ FreeSlots > 0
                  /\ queue' = Append(queue, command)
                  /\ UNCHANGED <<stallstat, tagmask, update, tagstat>>

\* A barrier waits for what its tag has before it, and EIEIO and SYNC for all:
\* "acts like a full barrier".
Waits(i) == \E j \in 1..(i - 1) : \/ queue[i].kind = "sync" \/ queue[j].kind = "sync"
                                  \/ /\ queue[i].tag = queue[j].tag
                                     /\ "barrier" \in {queue[i].kind, queue[j].kind}

Without(i) == [j \in 1..(Len(queue) - 1) |-> IF j < i THEN queue[j] ELSE queue[j + 1]]

\* The next transfer of a command is done.
Proceed(i) == /\ i \in DOMAIN queue /\ ~Waits(i) /\ ~queue[i].stalled
              /\ IF Len(queue[i].left) = 1
                   THEN queue' = Without(i) /\ UNCHANGED stallstat
                   ELSE /\ queue' = [queue EXCEPT ![i].left = Tail(@),
                                                  ![i].stalled = Head(queue[i].left)]
                        /\ stallstat' = stallstat \cup
                             (IF Head(queue[i].left) THEN {queue[i].tag} ELSE {})
              /\ UNCHANGED <<tagmask, update, tagstat>>

\* It stalls while no list has stalled since the last read.
RdListStallStat == /\ stallstat # {}
                   /\ stallstat' = {}
                   /\ UNCHANGED <<queue, tagmask, update, tagstat>>

\* All the lists of the tag go on.
WrListStallAck(tag) ==
  /\ queue' = [i \in DOMAIN queue |->
                 IF queue[i].tag = tag THEN [queue[i] EXCEPT !.stalled = FALSE] ELSE queue[i]]
  /\ UNCHANGED <<stallstat, tagmask, update, tagstat>>

WrTagMask(new) == /\ tagmask' = new
                  /\ UNCHANGED <<queue, stallstat, update, tagstat>>

\* It takes a request at any time, and keeps the status of an earlier one.
WrTagUpdate(type) == /\ update' = type
                     /\ UNCHANGED <<queue, stallstat, tagmask, tagstat>>

UpdateTag == /\ update = UpdateAll
             /\ \A i \in DOMAIN queue : queue[i].tag \notin tagmask
             /\ update' = NoUpdate
             /\ tagstat' = 1
             /\ UNCHANGED <<queue, stallstat, tagmask>>

RdTagStat == /\ tagstat = 1
             /\ tagstat' = 0
             /\ UNCHANGED <<queue, stallstat, tagmask, update>>
=============================================================================
