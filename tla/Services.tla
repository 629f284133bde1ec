------------------------------ MODULE Services ------------------------------
(***************************************************************************)
(* What the libraries and the RSX's driver keep for a process, as the      *)
(* tests use it and the consoles show it: the queue that is told when the  *)
(* audio is mixed, the update of the camera, the driver's allocations and  *)
(* the identifiers of objects.  None of it is in the repository.  Each     *)
(* call has its result as a parameter.                                     *)
(***************************************************************************)
EXTENDS Naturals, FiniteSets

CONSTANTS Slots,        \* where identifiers point to, of each kind of object
          Generations   \* how often a slot is reused before its identifiers repeat

VARIABLES notified,   \* which blocks the queue is told of: "none", "all" or "some"
          updating,   \* the camera is
          driver,     \* its memory, and where its device and context are mapped
          ids         \* of each kind: which slots are live, their generation, the last

Kinds == {"mutex", "thread", "group", "memory"}
NoBlock == 4
Fewest(slots) == CHOOSE s \in slots : \A r \in slots : s <= r

\* The system has made and ended memory objects before the program starts.
NoServices ==
  /\ notified = "none" /\ updating = FALSE
  /\ driver = [memory |-> FALSE, device |-> NoBlock, context |-> NoBlock, blocks |-> 0]
  /\ ids = [k \in Kinds |->
              [live |-> {}, last |-> 0,
               generation |-> [s \in Slots |-> IF k # "memory" THEN 0
                                               ELSE IF s = Fewest(Slots) THEN 1 % Generations
                                               ELSE Generations - 1]]]
-----------------------------------------------------------------------------
(* Audio: a queue is told of all blocks or, with the Ex functions, of some. *)

Notified(new) == notified' = new /\ UNCHANGED <<updating, driver, ids>>

cellAudioSetNotifyEventQueue(blocks, result) ==
  /\ result = IF notified = "none" THEN "OK" ELSE "TRANS_EVENT"
  /\ Notified(IF notified = "none" THEN blocks ELSE notified)

cellAudioRemoveNotifyEventQueue(blocks, result) ==
  /\ result = IF notified = blocks THEN "OK" ELSE "TRANS_EVENT"
  /\ Notified(IF notified = blocks THEN "none" ELSE notified)
-----------------------------------------------------------------------------
(* The camera: there is no video, and one update at a time. *)

Updating(new) == updating' = new /\ UNCHANGED <<notified, driver, ids>>

cellGemUpdateStart(result) == /\ result = IF updating THEN "UPDATE_NOT_FINISHED" ELSE "NO_VIDEO"
                              /\ Updating(TRUE)
cellGemUpdateFinish(result) == result = "NO_VIDEO" /\ Updating(FALSE)
-----------------------------------------------------------------------------
(* The RSX's driver.  What it maps for a process are blocks of one area, in *)
(* the order they are asked for: one for the device, three for the context. *)

Driver(new) == driver' = new /\ UNCHANGED <<notified, updating, ids>>
Block(n) == <<"+0", "+1", "+2", "+3">>[n + 1]

sys_rsx_memory_allocate(result) ==
  /\ result = IF driver.memory THEN "ENOMEM" ELSE "OK"
  /\ Driver([driver EXCEPT !.memory = TRUE])

\* The result of a call that maps blocks is the first of them.
sys_rsx_context_allocate(result) ==
  /\ result = IF driver.memory THEN Block(driver.blocks) ELSE "EINVAL"
  /\ Driver(IF driver.memory THEN [driver EXCEPT !.context = driver.blocks, !.blocks = @ + 3]
                             ELSE driver)

\* Asked for again, the device is where it is.
sys_rsx_device_map(result) ==
  LET mapped_now == [driver EXCEPT !.device = driver.blocks, !.blocks = @ + 1]
      mapped_so == IF driver.device = NoBlock THEN mapped_now ELSE driver
  IN  result = Block(mapped_so.device) /\ Driver(mapped_so)

\* Where nothing is mapped, this is no error.
sys_rsx_context_iounmap(result) ==
  /\ result = IF driver.context = NoBlock THEN "EINVAL" ELSE "OK"
  /\ Driver(driver)

\* The REF register of a new context; it is cellGcmInit that makes it -1.
RefIsZero == driver.context # NoBlock
-----------------------------------------------------------------------------
(* Identifiers: the lowest slot that is free, for a thread the next one, in *)
(* the generation the slot has come to.                                     *)

Free(k) == Slots \ ids[k].live
NextSlot(k) == LET later == {s \in Free(k) : s > ids[k].last}
               IN  IF k = "thread" /\ later # {} THEN Fewest(later) ELSE Fewest(Free(k))
Keep(k, table) == ids' = [ids EXCEPT ![k] = table] /\ UNCHANGED <<notified, updating, driver>>

Give(k, id) == /\ Free(k) # {}
               /\ LET s == NextSlot(k)
                  IN  /\ id = [slot |-> s, generation |-> ids[k].generation[s]]
                      /\ Keep(k, [ids[k] EXCEPT !.live = @ \cup {s}, !.last = s])

Names(k, id) == id.slot \in ids[k].live /\ id.generation = ids[k].generation[id.slot]

EndObject(k, id, result) ==
  IF Names(k, id)
  THEN /\ result = "OK"
       /\ Keep(k, [ids[k] EXCEPT !.live = @ \ {id.slot},
                                 !.generation[id.slot] = (@ + 1) % Generations])
  ELSE result = "ESRCH" /\ Keep(k, ids[k])
=============================================================================
