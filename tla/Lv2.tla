-------------------------------- MODULE Lv2 --------------------------------
(***************************************************************************)
(* The kernel objects the tests create, as they are used and as the        *)
(* consoles show them: one event queue, a timer that sends to it,          *)
(* lightweight mutexes and the threads of the process.  None of it is in   *)
(* the repository.  Each call has its result as a parameter.               *)
(***************************************************************************)
EXTENDS Naturals, Sequences

CONSTANTS Threads,      \* main is 0
          Mutexes,
          QueueDepth,   \* how many events fit into the queue
          MaxExpiries   \* how often a timer expires

VARIABLES thread,   \* of each thread: "none", "runs", "ended" or "interrupt"
          queue,    \* "none", "open" or "destroyed"
          events,   \* what waits in the queue
          timer,    \* its state, its period, and whether it is connected
          marks,    \* of each mutex: what the next lock will find
          bound,    \* a queue is bound to the number the SPU thread uses
          mapped    \* memory is mapped to the RSX's io addresses

NoTimer == [state |-> "none", period |-> "none", connected |-> FALSE, expiries |-> 0]

NoObjects == /\ thread = [t \in Threads |-> IF t = 0 THEN "runs" ELSE "none"]
             /\ events = <<>> /\ timer = NoTimer
             /\ marks = [m \in Mutexes |-> {}]
             /\ bound = FALSE /\ mapped = FALSE
-----------------------------------------------------------------------------
(* Threads. *)

OthersUnchanged == UNCHANGED <<queue, events, timer, marks, bound, mapped>>

\* In the place of one that has been joined there can be another.
sys_ppu_thread_create(t, result) ==
  /\ thread[t] \in {"none", "ended"} /\ result = "OK"
  /\ thread' = [thread EXCEPT ![t] = "runs"]
  /\ OthersUnchanged

\* It runs only when there is an interrupt.
sys_ppu_thread_create_interrupt(t, result) ==
  /\ thread[t] = "none" /\ result = "OK"
  /\ thread' = [thread EXCEPT ![t] = "interrupt"]
  /\ OthersUnchanged

sys_ppu_thread_exit(t) == /\ thread' = [thread EXCEPT ![t] = "ended"]
                          /\ OthersUnchanged

\* Main is not joinable.  EFAULT is for the status nobody wants.
sys_ppu_thread_join(t, result) ==
  /\ \/ t = 0 /\ result = "EINVAL"
     \/ thread[t] = "ended" /\ result = "EFAULT"
  /\ UNCHANGED thread /\ OthersUnchanged

sys_ppu_thread_set_priority(t, result) ==
  /\ result = IF thread[t] = "runs" THEN "OK" ELSE "ESRCH"
  /\ UNCHANGED thread /\ OthersUnchanged
-----------------------------------------------------------------------------
(* The event queue. *)

sys_event_queue_create(result) ==
  /\ queue # "open" /\ result = "OK"
  /\ queue' = "open" /\ events' = <<>>
  /\ UNCHANGED <<thread, timer, marks, bound, mapped>>

sys_event_queue_destroy(result) ==
  /\ result = IF queue = "open" THEN "OK" ELSE "ESRCH"
  /\ queue' = IF queue = "open" THEN "destroyed" ELSE queue
  /\ events' = <<>>
  /\ UNCHANGED <<thread, timer, marks, bound, mapped>>

\* A receive waits for an event, the end of the queue or that of its time.
sys_event_queue_receive(timeout, result) ==
  /\ \/ queue = "open" /\ events # <<>> /\ result = Head(events) /\ events' = Tail(events)
     \/ queue # "open" /\ result = "ESRCH" /\ UNCHANGED events
     \/ queue = "open" /\ events = <<>> /\ timeout /\ result = "ETIMEDOUT" /\ UNCHANGED events
  /\ UNCHANGED <<thread, queue, timer, marks, bound, mapped>>

Send(event) == /\ events' = IF queue = "open" /\ Len(events) < QueueDepth
                            THEN Append(events, event) ELSE events
               /\ UNCHANGED <<thread, queue, marks, bound>>

\* The SPU thread keeps its number after the queue is destroyed.
sys_spu_thread_bind_queue(result) ==
  /\ result = IF bound THEN "EBUSY" ELSE "OK"
  /\ bound' = TRUE
  /\ UNCHANGED <<thread, queue, events, timer, marks, mapped>>

sys_spu_thread_unbind_queue(result) ==
  /\ result = IF bound THEN "OK" ELSE "ESRCH"
  /\ bound' = FALSE
  /\ UNCHANGED <<thread, queue, events, timer, marks, mapped>>

sys_spu_thread_receive_event(result) ==
  /\ ~bound \/ queue # "open"
  /\ result = "EINVAL"
  /\ UNCHANGED thread /\ OthersUnchanged
-----------------------------------------------------------------------------
(* The timer. *)

Timer(new) == timer' = new /\ UNCHANGED <<thread, queue, events, marks, bound, mapped>>

sys_timer_create(result) == /\ result = "OK"
                            /\ Timer([NoTimer EXCEPT !.state = "stop"])

sys_timer_destroy(result) == /\ result = IF timer.connected THEN "EISCONN" ELSE "OK"
                             /\ Timer(IF timer.connected THEN timer ELSE NoTimer)

sys_timer_connect_event_queue(result) ==
  /\ result = IF timer.connected THEN "EISCONN" ELSE "OK"
  /\ Timer([timer EXCEPT !.connected = TRUE])

\* A timer that is disconnected stops, though its queue has been destroyed.
sys_timer_disconnect_event_queue(result) ==
  /\ result = IF timer.connected /\ queue = "open" THEN "OK" ELSE "ENOTCONN"
  /\ Timer([timer EXCEPT !.connected = FALSE, !.state = "stop"])

sys_timer_start(period, result) ==
  /\ result = IF timer.state = "run" THEN "EBUSY" ELSE "OK"
  /\ Timer(IF timer.state = "run" THEN timer
           ELSE [timer EXCEPT !.state = "run", !.period = period])

sys_timer_get_information(result) ==
  /\ result = timer.state
  /\ UNCHANGED thread /\ OthersUnchanged

\* The end of the queue does not stop a timer, as "timer state afte event queue
\* destruction" shows: it waits for that and prints nothing.
Expire == /\ timer.state = "run" /\ timer.period \in {"once", "periodic"}
          /\ timer.expiries < MaxExpiries
          /\ Send("event")
          /\ timer' = [timer EXCEPT !.expiries = @ + 1,
                                    !.state = IF timer.period = "once" THEN "stop" ELSE "run"]
          /\ UNCHANGED mapped
-----------------------------------------------------------------------------
(* Lightweight mutexes, below the library: an unlock, and the call 117,    *)
(* leave a mark for the next lock.                                         *)

Marks(m, new) == /\ marks' = [marks EXCEPT ![m] = new]
                 /\ UNCHANGED <<thread, queue, events, timer, bound, mapped>>

LockResult(m) == IF "unlocked" \in marks[m] THEN "OK" ELSE "EBUSY"

lv2_lwmutex_lock(m, result) == /\ marks[m] # {}
                               /\ result = LockResult(m)
                               /\ Marks(m, {})

\* Whether a trylock that fails takes the mark of 117 is left open.
lv2_lwmutex_trylock(m, result) == /\ result = LockResult(m)
                                  /\ \/ Marks(m, {})
                                     \/ result = "EBUSY" /\ Marks(m, marks[m])

lv2_lwmutex_unlock(m, result) == result = "OK" /\ Marks(m, marks[m] \cup {"unlocked"})

lv2_lwmutex_117(m, result) == result = "OK" /\ Marks(m, marks[m] \cup {"117"})

\* The wait unlocks the mutex, and leaves it so when its time is over.
lv2_lwcond_wait(m, result) == result = "ETIMEDOUT" /\ Marks(m, marks[m] \cup {"unlocked"})
-----------------------------------------------------------------------------
(* The RSX's queue. *)

sys_rsx_context_iomap(result) ==
  /\ result = "OK"
  /\ mapped' = TRUE
  /\ UNCHANGED <<thread, queue, events, timer, marks, bound>>

\* Memory the RSX still has mapped is unmapped or freed.
Unmap(result) == /\ result = "OK"
                 /\ IF mapped THEN Send("unmapped")
                              ELSE UNCHANGED <<thread, queue, events, marks, bound>>
                 /\ mapped' = FALSE
                 /\ UNCHANGED timer

VBlank == Send("vblank") /\ UNCHANGED <<timer, mapped>>
=============================================================================
