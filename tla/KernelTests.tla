----------------------------- MODULE KernelTests -----------------------------
(***************************************************************************)
(* The tests of kernel objects: those in which main races a thread of its  *)
(* own (one that receives events, one that waits for a mutex, four that    *)
(* change each other's priority), or the audio that is mixed, and those    *)
(* that make objects, or the RSX's context, by themselves.  What main      *)
(* prints besides the results of the calls is left out.                    *)
(***************************************************************************)
EXTENDS Naturals, Sequences, FiniteSets

CONSTANTS Tests,        \* the tests to run
          QueueDepth,   \* see Lv2
          MaxExpiries,
          Objects,      \* how many objects of a kind are made, 512 in the code
          Events,       \* how many events are received, 101 in the code
          Slots,        \* see Services
          Generations

Threads == 0..4
Mutexes == 1..2

VARIABLES thread, queue, events, timer, marks, bound, mapped   \* see Lv2
INSTANCE Lv2

VARIABLES notified, updating, driver, ids   \* see Services
INSTANCE Services

VARIABLES test,      \* the test that runs
          pos,       \* the next instruction of each thread
          ret,       \* what its last call returned
          saved,     \* ret_unbind
          signal,    \* _exit, exitvar, signal_exit, signal_, sig or i
          array,     \* of each kind: the identifiers of the objects made
          failed,    \* an ENSURE has ended the process
          console    \* what has been printed, but for the timer's events: they
                     \* may come anywhere among the results

lv2 == <<thread, queue, events, timer, marks, bound, mapped>>
services == <<notified, updating, driver, ids>>
vars == <<lv2, services, test, pos, ret, saved, signal, array, failed, console>>
-----------------------------------------------------------------------------
(* Instructions. *)

On(op, arg) == [op |-> op, arg |-> arg, mode |-> "ignore"]
I(op) == On(op, 0)
Goto(n) == On("goto", n)
If(condition, n) == [op |-> "if", condition |-> condition, arg |-> n]

\* Its result is printed; it has to be val, or the process ends.
sysCell(call) == [call EXCEPT !.mode = "print"]
ENSURE_VAL(call, val) == [call EXCEPT !.mode = val]
ENSURE_OK(call) == ENSURE_VAL(call, "OK")

\* Receives, and prints the event.
Receive(timeout, n) == [op |-> "receive", timeout |-> timeout, arg |-> n]
Finished == On("print", "sample_finished")
Exit == I("exit")
Join(t) == ENSURE_VAL(On("join", t), "EFAULT")
Create(t) == ENSURE_OK(On("thread_create", t))
CreateQueue == I("queue_create")
DestroyQueue == I("queue_destroy")

\* Memory, or addresses for it, is reserved, mapped or given back.
MemoryCall == I("memory")
Store(value) == On("store", value)

\* The instruction at n waits for a condition.
While(condition, n) == If(condition, n)
-----------------------------------------------------------------------------
(* The timer tests. *)

ConnectTimer == ENSURE_OK(I("timer_connect"))
DisconnectTimer == I("timer_disconnect")
StartTimer(period) == ENSURE_OK(On("timer_start", period))
TimerTest(period) ==
  <<Create(1), ENSURE_OK(CreateQueue), ENSURE_OK(I("timer_create")), ConnectTimer, StartTimer(period)>>
TimerEnd == <<ENSURE_OK(DisconnectTimer), ENSURE_OK(I("timer_destroy")), Finished>>

_rec(timeout) == <<Receive(timeout, 3), I("print_event"), If("exit", 1), Exit>>

\* The first event is due when the time has gone round.
timer_overflow == [main |-> TimerTest("never") \o <<Join(1)>> \o TimerEnd, thread |-> _rec(FALSE)]

\* "Wait for timer to stop"
timer_after_destruction ==
  [main |-> TimerTest("periodic")
            \o <<ENSURE_OK(DestroyQueue), While("timer_stopped", 7), Store(1), Join(1)>> \o TimerEnd,
   thread |-> _rec(TRUE)]

Restart(period) == <<ENSURE_OK(DisconnectTimer), ConnectTimer, StartTimer(period),
                     sysCell(I("timer_information"))>>

\* Mutant: main waits for the timer without the call that stops it.
timer_info_StillConnected ==
  [main |-> TimerTest("once") \o <<sysCell(I("timer_information"))>>
            \o Restart("periodic") \o Restart("periodic")
            \o <<ENSURE_OK(DestroyQueue), I("timer_information"), While("timer_stopped", 17),
                 sysCell(I("timer_information")), Store(1), Join(1), Finished>>,
   thread |-> <<If("exit", 3), Exit, Receive(TRUE, 1), I("print_event"), Goto(1)>>]

\* "timer state info when stopped or event queue disconnected"
timer_info ==
  [main |-> TimerTest("once") \o <<sysCell(I("timer_information"))>>
            \o Restart("periodic") \o Restart("periodic")
            \o <<ENSURE_OK(DestroyQueue), sysCell(DisconnectTimer), While("timer_stopped", 17),
                 sysCell(I("timer_information")), Store(1), Join(1), Finished>>,
   thread |-> <<If("exit", 3), Exit, Receive(TRUE, 1), I("print_event"), Goto(1)>>]
-----------------------------------------------------------------------------
(* The tests of lightweight mutexes and of threads. *)

Lock == sysCell(On("lock", 1))
TryLock == sysCell(On("trylock", 1))
Unlock == ENSURE_OK(On("unlock", 1))
Call117 == ENSURE_OK(On("117", 1))

\* "Wait for waiter to wait for lock (unsafe)": the sleep orders nothing.
lwmutex_117 ==
  [main |-> <<Call117, Lock, TryLock, Call117, Unlock, Lock, Unlock, Call117, Lock,
              Unlock, Call117, TryLock, Call117, TryLock,
              Create(1), On("117", 1), Join(1)>>,
   thread |-> <<On("lock", 1), I("print_ret"), Exit>>]

\* test_lock unlocks what it could lock.
test_lock == <<On("trylock", 0), If("ok", 5), On("unlock", 0)>>
threadWait == <<On("lwcond_wait", 0)>> \o test_lock \o <<I("print_ret"), I("decrement"), Exit>>

\* Mutant: a thread is counted when it may have ended.
lwcond_wait_timeout_LateCount ==
  [main |-> <<On("thread_create", 1), I("increment"), On("thread_create", 2), I("increment"),
              While("sig_is_0", 5), Finished>>,
   thread |-> threadWait]

lwcond_wait_timeout ==
  [main |-> <<I("increment"), On("thread_create", 1), I("increment"), On("thread_create", 2),
              While("sig_is_0", 5), Finished>>,
   thread |-> threadWait]

\* Mutant: the signal comes before the line.
main_thread_joinability_SignalFirst ==
  [main |-> <<On("thread_create", 1), While("exit", 2), Finished>>,
   thread |-> <<On("join", 0), Store(1), I("print_ret"), Exit>>]

main_thread_joinability ==
  [main |-> <<On("thread_create", 1), While("exit", 2), Finished>>,
   thread |-> <<On("join", 0), I("print_ret"), Store(1), Exit>>]

SetPriorities == <<On("set_priority", 1), On("set_priority", 2), On("set_priority", 3)>>

\* Mutant: the threads start at once.
Waiter_Starts == <<Goto(2), If("signal_is_not_2", 7)>> \o SetPriorities \o <<Goto(2), Exit>>

\* "Wait until all threads are created"
Waiter == <<While("signal_is_not_0", 1), If("signal_is_1", 7)>> \o SetPriorities
          \o <<Goto(2), Exit>>

set_priority == [main |-> <<Create(1), Create(2), Create(3), Create(4), Store(1), Store(2),
                            Join(1), Join(2), Join(3), Join(4), On("print", "counts")>>,
                 thread |-> Waiter]
-----------------------------------------------------------------------------
(* The tests of the SPU's event queue and of the RSX's. *)

CreateBindDestroy == <<sysCell(CreateQueue), sysCell(I("bind")), sysCell(DestroyQueue)>>
Unbind == I("unbind")

\* Mutant: the last but one queue stays bound.
bind_queue_StaysBound ==
  [main |-> CreateBindDestroy \o <<sysCell(Unbind), I("save")>> \o CreateBindDestroy
            \o <<sysCell(CreateQueue), sysCell(I("bind")), If("not_ok", 16),
                 If("saved_ok", 24), ENSURE_OK(Unbind), sysCell(I("bind")), Goto(17),
                 On("print", "Reusing_binded_queue"), sysCell(DestroyQueue),
                 ENSURE_OK(CreateQueue), ENSURE_OK(I("bind")), ENSURE_OK(DestroyQueue),
                 On("thread_create", 1), On("join", 1), I("return"),
                 On("print", "Unhandled_fatal_case_occured!")>>,
   thread |-> <<I("spu_receive"), I("print_ret"), Exit>>]

\* "Test if it is ok to bind new queue after the previous queue was destroyed"
bind_queue ==
  [main |-> CreateBindDestroy \o <<sysCell(Unbind), I("save")>> \o CreateBindDestroy
            \o <<sysCell(CreateQueue), sysCell(I("bind")), If("not_ok", 16),
                 If("saved_ok", 25), ENSURE_OK(Unbind), sysCell(I("bind")), Goto(17),
                 On("print", "Reusing_binded_queue"), sysCell(DestroyQueue), sysCell(Unbind),
                 ENSURE_OK(CreateQueue), ENSURE_OK(I("bind")), ENSURE_OK(DestroyQueue),
                 On("thread_create", 1), On("join", 1), I("return"),
                 On("print", "Unhandled_fatal_case_occured!")>>,
   thread |-> <<I("spu_receive"), I("print_ret"), Exit>>]

\* "ignore vblank"
threadEntry == <<Receive(FALSE, 5), If("not_vblank", 1), I("print_ret"), Goto(1),
                 On("print", "threadended"), Exit>>
DeviceMemoryContext == <<sysCell(I("device_map")), sysCell(I("memory_allocate")),
                         sysCell(I("context_allocate"))>>

\* The blocks are allocated and mapped one like the other, so there is one.
MapBlock == <<ENSURE_OK(MemoryCall), ENSURE_OK(MemoryCall)>>
IoMap == sysCell(I("iomap"))
UnmapMemory == ENSURE_OK(I("unmap"))
JoinThread == On("join", 1)

rsxunmapevent ==
  [main |-> DeviceMemoryContext \o <<Create(1), ENSURE_OK(MemoryCall)>> \o MapBlock
            \o <<IoMap, UnmapMemory, ENSURE_OK(MemoryCall), JoinThread, Finished>>,
   thread |-> threadEntry]

\* What sys_memory_allocate returns is not looked at.
rsxunmapevent_sys_memory ==
  [main |-> DeviceMemoryContext \o <<Create(1), MemoryCall, IoMap, UnmapMemory, JoinThread, Finished>>,
   thread |-> threadEntry]
-----------------------------------------------------------------------------
(* The tests without a thread beside main, and that of identifiers, whose  *)
(* threads exit at once.                                                   *)

Alone(instructions) == [main |-> instructions, thread |-> <<Exit>>]
Repeat(n, instruction) == [i \in 1..n |-> instruction]

\* An event, waited for; the other sets the time a wait has.
AwaitEvent == ENSURE_VAL(On("queue_receive", FALSE), "event")
Notify(blocks) == On("set_notify", blocks)
Unnotify(blocks) == On("remove_notify", blocks)
CreateNotifyQueue == ENSURE_OK(CreateQueue)

\* Mutant: the second queue's key is not set again.
audio_set_notify_queue_NotSet ==
  Alone(<<CreateNotifyQueue, ENSURE_OK(Notify("all")), AwaitEvent, ENSURE_OK(DestroyQueue),
          CreateNotifyQueue, sysCell(On("queue_receive", TRUE)), sysCell(Unnotify("all")),
          ENSURE_OK(DestroyQueue), CreateNotifyQueue, AwaitEvent, Finished>>)

\* A queue that is destroyed is not told any more, nor is the one that gets its
\* key ("key != key2" is not to hold).
audio_set_notify_queue ==
  LET round == <<CreateNotifyQueue, ENSURE_OK(Notify("all")), AwaitEvent, On("print", "event:"),
                 ENSURE_OK(DestroyQueue), CreateNotifyQueue>>
  IN  Alone(round \o <<sysCell(On("queue_receive", TRUE)), On("print", "event:"),
                       sysCell(Unnotify("all")), ENSURE_OK(DestroyQueue)>>
            \o round \o <<sysCell(Notify("all")), sysCell(Unnotify("all")),
                           ENSURE_OK(DestroyQueue), Finished>>)

audio_set_notify_queue_ex ==
  Alone(<<CreateNotifyQueue, sysCell(Notify("some"))>> \o Repeat(Events, AwaitEvent)
        \o <<On("print", "passed"), sysCell(Unnotify("all")), sysCell(Unnotify("some"))>>)

UpdateStart == sysCell(I("gem_start"))
UpdateFinish == sysCell(I("gem_finish"))
camera_update_start == Alone(<<UpdateStart, UpdateFinish, UpdateStart, UpdateStart, Finished>>)

\* Threads that need no time, as many as there can be.
threads_amount ==
  Alone(<<I("create_interrupt"), If("ok", 5), I("increment"), Goto(1),
          If("again", 8), I("print_signal"), I("return"), On("print", "Hard_failure"), I("return")>>)

\* Without the memory it returns at once.
rsx_initialization ==
  Alone(<<ENSURE_OK(MemoryCall), sysCell(I("context_allocate")), I("memory_allocate"), If("ok", 12),
          sysCell(I("memory_allocate")), I("context_allocate"), I("save"), I("device_map"),
          sysCell(I("device_map")), I("print_saved"), Finished>>)

rsx_iounmap == Alone(DeviceMemoryContext \o Repeat(3, sysCell(MemoryCall))
                     \o <<sysCell(I("iounmap")), Finished>>)
rsx_base_address == Alone(<<sysCell(MemoryCall)>> \o DeviceMemoryContext \o <<Finished>>)

\* A trap at an error stops the program.
Trap == If("no_error", 13)
rsx_base_address_2 ==
  Alone(<<ENSURE_OK(MemoryCall), ENSURE_OK(MemoryCall), I("device_map"), Trap, I("save"),
          I("memory_allocate"), Trap, I("context_allocate"), Trap,
          I("print_saved"), I("print_ret"), Finished>>)
rsx_set_reference == Alone(<<I("device_map"), sysCell(I("memory_allocate")),
                             sysCell(I("context_allocate")), I("print_ref")>>)

\* One object lives to the end, of the others one at a time.
Object(kind, i) == [kind |-> kind, i |-> i]
Make(kind, i) == On("make", Object(kind, i))
End(kind, i) == ENSURE_OK(On("end", Object(kind, i)))
OneAfterTheOther(kind) ==
  <<Make(kind, 0)>>
  \o [n \in 1..(2 * (Objects - 1)) |->
       IF n % 2 = 1 THEN Make(kind, (n + 1) \div 2) ELSE End(kind, n \div 2)]
  \o <<End(kind, 0)>>
ids_invalidations ==
  Alone(OneAfterTheOther("mutex") \o OneAfterTheOther("thread") \o OneAfterTheOther("group")
        \o OneAfterTheOther("memory") \o <<Finished>>)

Programs == [timer_overflow |-> timer_overflow, timer_after_destruction |-> timer_after_destruction,
             timer_info |-> timer_info, lwmutex_117 |-> lwmutex_117,
             lwcond_wait_timeout |-> lwcond_wait_timeout,
             main_thread_joinability |-> main_thread_joinability, set_priority |-> set_priority,
             bind_queue |-> bind_queue, rsxunmapevent |-> rsxunmapevent,
             rsxunmapevent_sys_memory |-> rsxunmapevent_sys_memory,
             audio_set_notify_queue |-> audio_set_notify_queue,
             audio_set_notify_queue_ex |-> audio_set_notify_queue_ex,
             camera_update_start |-> camera_update_start, threads_amount |-> threads_amount,
             rsx_initialization |-> rsx_initialization, rsx_iounmap |-> rsx_iounmap,
             rsx_base_address |-> rsx_base_address, rsx_base_address_2 |-> rsx_base_address_2,
             rsx_set_reference |-> rsx_set_reference, ids_invalidations |-> ids_invalidations]

RsxTests == {"rsxunmapevent", "rsxunmapevent_sys_memory"}

ASSUME KernelTestsAssumption == /\ Tests \subseteq DOMAIN Programs
                                /\ QueueDepth \in Nat \ {0} /\ MaxExpiries \in Nat
                                /\ Objects \in Nat \ {0} /\ Events \in Nat
                                /\ IsFiniteSet(Slots) /\ Slots = 1..Cardinality(Slots)
                                /\ Cardinality(Slots) >= 2
                                /\ Generations \in Nat \ {0}

Program(t) == IF t = 0 THEN Programs[test].main ELSE Programs[test].thread
Returned == pos[0] > Len(Program(0))
Instruction(t) == Program(t)[pos[t]]

\* The RSX's queue comes with its context; here it is there from the start.
NoId == [slot |-> 0, generation |-> 0]

Init == /\ NoObjects /\ NoServices
        /\ test \in Tests
        /\ queue = IF test \in RsxTests THEN "open" ELSE "none"
        /\ pos = [t \in Threads |-> 1] /\ ret = [t \in Threads |-> "OK"]
        /\ saved = "OK" /\ signal = 0
        /\ array = [k \in Kinds |-> [i \in 0..(Objects - 1) |-> NoId]]
        /\ failed = FALSE /\ console = <<>>
-----------------------------------------------------------------------------
(* A thread runs until it exits or the process is over. *)

CanRun(t) == ~failed /\ ~Returned /\ thread[t] = "runs"
Fetch(t, op) == CanRun(t) /\ Instruction(t).op = op
Arg(t) == Instruction(t).arg
Goes(t, n) == pos' = [pos EXCEPT ![t] = n]
Next_(t) == Goes(t, pos[t] + 1)
Puts(text) == console' = Append(console, text)

\* 0 is the mutex of the thread's own.
Mutex(t) == IF Arg(t) = 0 THEN t ELSE Arg(t)

\* The other threads, from the thread's own on.
Other(t) == ((t - 1 + Arg(t)) % 4) + 1

KernelCalls(t, call, result) ==
  \/ call.op = "thread_create" /\ sys_ppu_thread_create(call.arg, result)
  \/ call.op = "join" /\ sys_ppu_thread_join(call.arg, result)
  \/ call.op = "set_priority" /\ sys_ppu_thread_set_priority(Other(t), result)
  \/ call.op = "queue_create" /\ sys_event_queue_create(result)
  \/ call.op = "queue_receive" /\ sys_event_queue_receive(call.arg, result)
  \/ call.op = "timer_create" /\ sys_timer_create(result)
  \/ call.op = "timer_destroy" /\ sys_timer_destroy(result)
  \/ call.op = "timer_connect" /\ sys_timer_connect_event_queue(result)
  \/ call.op = "timer_disconnect" /\ sys_timer_disconnect_event_queue(result)
  \/ call.op = "timer_start" /\ sys_timer_start(call.arg, result)
  \/ call.op = "timer_information" /\ sys_timer_get_information(result)
  \/ call.op = "lock" /\ lv2_lwmutex_lock(Mutex(t), result)
  \/ call.op = "trylock" /\ lv2_lwmutex_trylock(Mutex(t), result)
  \/ call.op = "unlock" /\ lv2_lwmutex_unlock(Mutex(t), result)
  \/ call.op = "117" /\ lv2_lwmutex_117(Mutex(t), result)
  \/ call.op = "lwcond_wait" /\ lv2_lwcond_wait(Mutex(t), result)
  \/ call.op = "bind" /\ sys_spu_thread_bind_queue(result)
  \/ call.op = "unbind" /\ sys_spu_thread_unbind_queue(result)
  \/ call.op = "spu_receive" /\ sys_spu_thread_receive_event(result)
  \/ call.op = "iomap" /\ sys_rsx_context_iomap(result)
  \/ call.op = "unmap" /\ Unmap(result)

\* The thread with the lowest number that there is not.
CreateInterruptThread(result) ==
  LET none == {t \in Threads : thread[t] = "none"}
  IN  IF none = {} THEN result = "EAGAIN" /\ UNCHANGED lv2
      ELSE sys_ppu_thread_create_interrupt(Fewest(none), result)

ServiceCalls(call, result) ==
  \/ call.op = "set_notify" /\ cellAudioSetNotifyEventQueue(call.arg, result)
  \/ call.op = "remove_notify" /\ cellAudioRemoveNotifyEventQueue(call.arg, result)
  \/ call.op = "gem_start" /\ cellGemUpdateStart(result)
  \/ call.op = "gem_finish" /\ cellGemUpdateFinish(result)
  \/ call.op = "memory_allocate" /\ sys_rsx_memory_allocate(result)
  \/ call.op = "context_allocate" /\ sys_rsx_context_allocate(result)
  \/ call.op = "device_map" /\ sys_rsx_device_map(result)
  \/ call.op = "iounmap" /\ sys_rsx_context_iounmap(result)

\* The first of the objects that are threads; the others are one at a time.
ThreadOf(i) == IF i = 0 THEN 1 ELSE 2

\* The queue that is told of the audio, and the identifiers, are kept by both.
Calls(t, call, result) ==
  \/ KernelCalls(t, call, result) /\ UNCHANGED services
  \/ call.op = "create_interrupt" /\ CreateInterruptThread(result) /\ UNCHANGED services
  \/ call.op = "queue_destroy" /\ sys_event_queue_destroy(result) /\ Notified("none")
  \/ ServiceCalls(call, result) /\ UNCHANGED lv2
  \/ call.op = "memory" /\ result = "OK" /\ UNCHANGED <<lv2, services>>
  \/ call.op = "end" /\ LET o == call.arg IN
       /\ EndObject(o.kind, array[o.kind][o.i], result)
       /\ IF o.kind = "thread" THEN sys_ppu_thread_join(ThreadOf(o.i), "EFAULT") ELSE UNCHANGED lv2

Results == {"OK", "EFAULT", "EINVAL", "ESRCH", "EBUSY", "EISCONN", "ENOTCONN", "ETIMEDOUT",
            "EAGAIN", "ENOMEM", "TRANS_EVENT", "NO_VIDEO", "UPDATE_NOT_FINISHED",
            "none", "stop", "run", "event", "vblank", "unmapped", "+0", "+1", "+2", "+3"}

\* ENSURE_OK and ENSURE_VAL end the process at a result they do not expect.
Call(t) == /\ CanRun(t)
           /\ LET call == Instruction(t) IN
                \E result \in Results :
                  /\ Calls(t, call, result)
                  /\ ret' = [ret EXCEPT ![t] = result]
                  /\ console' = IF call.mode = "print" THEN Append(console, result) ELSE console
                  /\ failed' = (call.mode \notin {"ignore", "print", result})
           /\ Next_(t)
           /\ UNCHANGED <<test, saved, signal, array>>

MakeObject(t) ==
  /\ Fetch(t, "make")
  /\ LET o == Arg(t) IN
       /\ \E id \in [slot : Slots, generation : 0..(Generations - 1)] :
            /\ Give(o.kind, id)
            /\ array' = [array EXCEPT ![o.kind][o.i] = id]
       /\ IF o.kind = "thread" THEN sys_ppu_thread_create(ThreadOf(o.i), "OK") ELSE UNCHANGED lv2
  /\ Next_(t)
  /\ UNCHANGED <<test, ret, saved, signal, failed, console>>

ReceiveEvent(t) ==
  /\ Fetch(t, "receive")
  /\ \E result \in Results :
       /\ sys_event_queue_receive(Instruction(t).timeout, result)
       /\ ret' = [ret EXCEPT ![t] = result]
       /\ IF result \in {"ESRCH", "ETIMEDOUT"} THEN Goes(t, Arg(t)) ELSE Next_(t)
  /\ UNCHANGED <<services, test, saved, signal, array, failed, console>>

Holds(t, condition) ==
  CASE condition = "exit" -> signal = 1
    [] condition = "sig_is_0" -> signal = 0
    [] condition = "signal_is_not_0" -> signal # 0
    [] condition = "signal_is_1" -> signal = 1
    [] condition = "signal_is_not_2" -> signal # 2
    [] condition = "timer_stopped" -> timer.state = "stop"
    [] condition = "ok" -> ret[t] = "OK"
    [] condition = "not_ok" -> ret[t] # "OK"
    [] condition = "no_error" -> ret[t] \notin {"EINVAL", "ENOMEM"}
    [] condition = "again" -> ret[t] = "EAGAIN"
    [] condition = "saved_ok" -> saved = "OK"
    [] condition = "not_vblank" -> ret[t] # "vblank"

Branch(t) == /\ \/ Fetch(t, "if") /\ IF Holds(t, Instruction(t).condition)
                                       THEN Next_(t) ELSE Goes(t, Arg(t))
                \/ Fetch(t, "goto") /\ Goes(t, Arg(t))
                \/ Fetch(t, "return") /\ Goes(t, Len(Program(t)) + 1)
             /\ UNCHANGED <<lv2, services, test, ret, saved, signal, array, failed, console>>

Number(n) == <<"0", "1", "2", "3", "4">>[n + 1]

PrintLine(t) == /\ \/ Fetch(t, "print") /\ Puts(Arg(t))
                   \/ Fetch(t, "print_ret") /\ Puts(ret[t])
                   \/ Fetch(t, "print_saved") /\ Puts(saved)
                   \/ Fetch(t, "print_signal") /\ Puts(Number(signal))
                   \/ Fetch(t, "print_ref") /\ RefIsZero /\ Puts("REF=0x0")
                   \/ Fetch(t, "print_event") /\ UNCHANGED console
                /\ Next_(t)
                /\ UNCHANGED <<lv2, services, test, ret, saved, signal, array, failed>>

WriteSignal(t) == /\ \/ Fetch(t, "store") /\ signal' = Arg(t)
                     \/ Fetch(t, "increment") /\ signal' = signal + 1
                     \/ Fetch(t, "decrement") /\ signal' = signal - 1
                  /\ Next_(t)
                  /\ UNCHANGED <<lv2, services, test, ret, saved, array, failed, console>>

SaveResult(t) == /\ Fetch(t, "save")
                 /\ saved' = ret[t]
                 /\ Next_(t)
                 /\ UNCHANGED <<lv2, services, test, ret, signal, array, failed, console>>

ExitThread(t) == /\ Fetch(t, "exit")
                 /\ sys_ppu_thread_exit(t)
                 /\ UNCHANGED <<services, test, pos, ret, saved, signal, array, failed, console>>

Runs(t) == \/ Call(t) \/ MakeObject(t) \/ ReceiveEvent(t) \/ Branch(t) \/ PrintLine(t)
           \/ WriteSignal(t) \/ SaveResult(t) \/ ExitThread(t)

Device == /\ ~failed /\ ~Returned
          /\ Expire \/ (test \in RsxTests /\ VBlank)
          /\ UNCHANGED <<services, test, pos, ret, saved, signal, array, failed, console>>

\* A block of the audio is mixed, and the queue is told.
Mix == /\ ~failed /\ ~Returned /\ notified # "none"
       /\ Send("event")
       /\ UNCHANGED <<timer, mapped, services, test, pos, ret, saved, signal, array, failed, console>>

Next == (\E t \in Threads : Runs(t)) \/ Device \/ Mix

\* Every thread runs, and the audio is mixed; a timer need not expire before a
\* given step.
Spec == Init /\ [][Next]_vars /\ (\A t \in Threads : WF_vars(Runs(t))) /\ WF_vars(Mix)
-----------------------------------------------------------------------------
TypeOK == /\ thread \in [Threads -> {"none", "runs", "ended", "interrupt"}]
          /\ queue \in {"none", "open", "destroyed"}
          /\ events \in Seq({"event", "vblank", "unmapped"}) /\ Len(events) <= QueueDepth
          /\ timer.state \in {"none", "stop", "run"} /\ timer.expiries \in 0..MaxExpiries
          /\ marks \in [Mutexes -> SUBSET {"unlocked", "117"}]
          /\ bound \in BOOLEAN /\ mapped \in BOOLEAN
          /\ test \in Tests
          /\ \A t \in Threads : pos[t] \in 1..(Len(Program(t)) + 1)
          /\ ret \in [Threads -> Results] /\ saved \in Results
          /\ signal \in 0..(IF test = "threads_amount" THEN 4 ELSE 2) /\ failed \in BOOLEAN
          /\ \A k \in Kinds : \A i \in DOMAIN array[k] :
               array[k][i] \in [slot : Slots \cup {0}, generation : 0..(Generations - 1)]

\* What the expected.txt show of the results, in the order they are printed.
\* The one-shot timer may be over when main asks.
Expected ==
  [timer_overflow |-> {<<>>},
   timer_after_destruction |-> {<<>>},
   timer_info |-> {<<s, "run", "run", "ENOTCONN", "stop", "sample_finished">> : s \in {"run", "stop"}},
   lwmutex_117 |-> {<<"EBUSY", "EBUSY", "OK", "OK", "OK", "EBUSY", "EBUSY">>},
   lwcond_wait_timeout |-> {<<"OK", "OK", "sample_finished">>},
   main_thread_joinability |-> {<<"EINVAL", "sample_finished">>},
   set_priority |-> {<<"counts">>},
   bind_queue |-> {<<"OK", "OK", "OK", "OK", "OK", "OK", "OK", "OK", "EBUSY", "OK", "OK", "OK",
                     "EINVAL">>},
   rsxunmapevent |-> {<<"+0", "OK", "+1", "OK", "unmapped">>},
   rsxunmapevent_sys_memory |-> {<<"+0", "OK", "+1", "OK", "unmapped">>},
   audio_set_notify_queue |-> {<<"event:", "ETIMEDOUT", "event:", "TRANS_EVENT", "event:", "OK", "OK",
                                 "sample_finished">>},
   audio_set_notify_queue_ex |-> {<<"OK", "passed", "TRANS_EVENT", "OK">>},
   camera_update_start |-> {<<"NO_VIDEO", "NO_VIDEO", "NO_VIDEO", "UPDATE_NOT_FINISHED",
                              "sample_finished">>},
   threads_amount |-> {<<Number(Cardinality(Threads) - 1)>>},
   rsx_initialization |-> {<<"EINVAL", "ENOMEM", "+3", "+0", "sample_finished">>},
   rsx_iounmap |-> {<<"+0", "OK", "+1", "OK", "OK", "OK", "OK", "sample_finished">>},
   rsx_base_address |-> {<<"OK", "+0", "OK", "+1", "sample_finished">>},
   rsx_base_address_2 |-> {<<"+0", "+1", "sample_finished">>},
   rsx_set_reference |-> {<<"OK", "+1", "REF=0x0">>},
   ids_invalidations |-> {<<"sample_finished">>}]

Begins(lines) == Len(console) <= Len(lines) /\ \A n \in 1..Len(console) : console[n] = lines[n]

\* When main returns, which ends the process, no thread has a line to print.
Prints(t) == {n \in pos[t]..Len(Program(t)) : Program(t)[n].op \in {"print", "print_ret", "print_event"}}
NothingLost == Returned => \A t \in Threads \ {0} : thread[t] = "runs" => Prints(t) = {}

\* The object that lives keeps the first slot.  The others take the second in turn,
\* threads all there are, and the generations go round.
Identifiers ==
  \A i \in 1..(Objects - 1) :
    LET others == Cardinality(Slots) - 1
        turn(k) == IF k = "thread" THEN others ELSE 1
        first(k) == IF k = "memory" THEN Generations - 1 ELSE 0
    IN  \A k \in Kinds :
          array[k][i] = [slot |-> 2 + ((i - 1) % turn(k)),
                         generation |-> (first(k) + (i - 1) \div turn(k)) % Generations]

\* No ENSURE ends a test with a line of its own: a timer is connected and started
\* only when it can be, a queue is bound to a number that is free.
AsOnTheConsole == /\ ~failed /\ NothingLost
                  /\ \E lines \in Expected[test] : /\ Begins(lines)
                                                   /\ Returned => Len(console) = Len(lines)
                  /\ test = "ids_invalidations" /\ Returned => Identifiers

\* A thread is joined, or has its priority set, by an identifier that has been
\* written to tid.
NamesCreatedThreads ==
  \A t \in Threads : /\ Fetch(t, "join") => thread[Arg(t)] # "none"
                     /\ Fetch(t, "set_priority") => thread[Other(t)] # "none"

\* The tests return, but for those in which main joins a thread that never exits,
\* or waits for a timer that never stops.
EndsOrWaits ==
  <>[](CASE test = "timer_overflow" -> Fetch(0, "join")
         [] test = "timer_after_destruction" -> Fetch(0, "if")
         [] test \in RsxTests -> Fetch(0, "join")
         [] OTHER -> Returned)
=============================================================================
