-------------------------- MODULE KernelTests_proofs --------------------------
(***************************************************************************)
(* What holds of the tests of kernel objects for every depth of the queue, *)
(* every number of expiries, of objects, of events, of slots and of        *)
(* generations: the types, with the bounds of the queue, of the counters   *)
(* and of each thread's program, and that no thread is joined or has its   *)
(* priority set before it is there (KInv); and that the console of every   *)
(* test is in every state as expected.txt begins, and all of it when main  *)
(* returns (CInv: what each test has shown at each place of its threads,   *)
(* and what it needs for the next line to be the right one).               *)
(***************************************************************************)
EXTENDS KernelTests, FiniteSetTheorems, SequenceTheorems, TLAPS

\* The identifiers of objects, and that of none.
Id == [slot : Slots \cup {0}, generation : 0..(Generations - 1)]

\* The types of the variables that the tests have in common.
Timed == /\ DOMAIN timer = {"state", "period", "connected", "expiries"}
         /\ timer.state \in {"none", "stop", "run"} /\ timer.expiries \in 0..MaxExpiries
Queued == /\ queue \in {"none", "open", "destroyed"}
          /\ events \in Seq({"event", "vblank", "unmapped"}) /\ Len(events) <= QueueDepth
Marked == marks \in [Mutexes -> SUBSET {"unlocked", "117"}]
Threaded == thread \in [Threads -> {"none", "runs", "ended", "interrupt"}]
Switched == bound \in BOOLEAN /\ mapped \in BOOLEAN
Lv2Typed == Timed /\ Queued /\ Marked /\ Threaded /\ Switched

\* Instructions after which a thread may go anywhere.
Jumps == {"if", "goto", "receive"}

\* A thread that there is not has not begun.
Begun == /\ pos \in [Threads -> Nat]
         /\ \A t \in Threads : thread[t] = "none" => pos[t] = 1
Typed == /\ Lv2Typed /\ Begun
         /\ ret \in [Threads -> Results] /\ saved \in Results
         /\ array \in [Kinds -> [0..(Objects - 1) -> Id]]
         /\ test \in Tests /\ failed \in BOOLEAN
-----------------------------------------------------------------------------
(* Types.                                                                  *)

\* The calls keep the types of what the kernel keeps.
LEMMA ThreadsKeep ==
  ASSUME Lv2Typed, NEW t, NEW u, NEW r,
         \/ sys_ppu_thread_create(u, r) \/ sys_ppu_thread_create_interrupt(u, r)
         \/ sys_ppu_thread_join(u, r) \/ sys_ppu_thread_set_priority(u, r) \/ sys_ppu_thread_exit(u)
  PROVE  Lv2Typed'
BY DEF Lv2Typed, Timed, Queued, Marked, Threaded, Switched, sys_ppu_thread_create,
       sys_ppu_thread_create_interrupt, sys_ppu_thread_join, sys_ppu_thread_set_priority,
       sys_ppu_thread_exit, OthersUnchanged

\* The same of the queue.
LEMMA QueueKeeps ==
  ASSUME Lv2Typed, NEW timeout, NEW r,
         \/ sys_event_queue_create(r) \/ sys_event_queue_destroy(r)
         \/ sys_event_queue_receive(timeout, r)
         \/ sys_spu_thread_bind_queue(r) \/ sys_spu_thread_unbind_queue(r)
         \/ sys_spu_thread_receive_event(r) \/ sys_rsx_context_iomap(r)
  PROVE  Lv2Typed'
  <1>1. Threaded' /\ Timed' /\ Marked' /\ Switched'
    BY DEF Lv2Typed, Threaded, Timed, Marked, Switched, sys_event_queue_create,
       sys_event_queue_destroy,
           sys_event_queue_receive, sys_spu_thread_bind_queue, sys_spu_thread_unbind_queue,
           sys_spu_thread_receive_event, sys_rsx_context_iomap, OthersUnchanged
  <1>2. QueueDepth \in Nat
    BY KernelTestsAssumption DEF KernelTestsAssumption
  <1>3. Queued'
    <2>1. CASE sys_event_queue_create(r) \/ sys_event_queue_destroy(r)
      <3>1. events' = <<>> /\ queue' \in {"none", "open", "destroyed"}
        BY <2>1 DEF sys_event_queue_create, sys_event_queue_destroy, Lv2Typed, Queued
      <3> QED BY <1>2, <3>1 DEF Queued
    <2>2. CASE sys_event_queue_receive(timeout, r)
      BY <1>2, <2>2 DEF sys_event_queue_receive, Lv2Typed, Queued
    <2>3. CASE UNCHANGED <<queue, events>>
      BY <2>3 DEF Lv2Typed, Queued
    <2> QED BY <2>1, <2>2, <2>3 DEF sys_spu_thread_bind_queue, sys_spu_thread_unbind_queue,
               sys_spu_thread_receive_event, sys_rsx_context_iomap, OthersUnchanged
  <1> QED BY <1>1, <1>3 DEF Lv2Typed

\* What is sent is added when there is room.
LEMMA SendKeeps ==
  ASSUME Lv2Typed, NEW e \in {"event", "vblank", "unmapped"}, Send(e), Timed', mapped' \in BOOLEAN
  PROVE  Lv2Typed'
  <1>1. QueueDepth \in Nat
    BY KernelTestsAssumption DEF KernelTestsAssumption
  <1>2. Queued'
    BY <1>1 DEF Send, Lv2Typed, Queued
  <1> QED BY <1>2 DEF Send, Lv2Typed, Threaded, Marked, Switched

\* Memory that is mapped is unmapped with an event.
LEMMA UnmapKeeps == ASSUME Lv2Typed, NEW r, Unmap(r) PROVE Lv2Typed'
  <1>1. Timed'
    BY DEF Unmap, Lv2Typed, Timed
  <1>2. CASE mapped
    BY <1>1, <1>2, SendKeeps DEF Unmap
  <1>3. CASE ~mapped
    BY <1>1, <1>3 DEF Unmap, Lv2Typed, Queued, Threaded, Marked, Switched
  <1> QED BY <1>2, <1>3

\* The same of the timer.
LEMMA TimerKeeps ==
  ASSUME Lv2Typed, NEW period, NEW r,
         \/ sys_timer_create(r) \/ sys_timer_destroy(r) \/ sys_timer_connect_event_queue(r)
         \/ sys_timer_disconnect_event_queue(r) \/ sys_timer_start(period, r)
         \/ sys_timer_get_information(r)
  PROVE  Lv2Typed'
  <1>1. 0 \in 0..MaxExpiries
    BY KernelTestsAssumption DEF KernelTestsAssumption
  <1>2. Threaded' /\ Queued' /\ Marked' /\ Switched'
    BY DEF Lv2Typed, Threaded, Queued, Marked, Switched, sys_timer_create, sys_timer_destroy,
           sys_timer_connect_event_queue, sys_timer_disconnect_event_queue, sys_timer_start,
           sys_timer_get_information, Timer, OthersUnchanged
  <1>3. Timed'
    <2>1. CASE sys_timer_create(r) \/ sys_timer_destroy(r)
      BY <1>1, <2>1 DEF Lv2Typed, Timed, sys_timer_create, sys_timer_destroy, Timer, NoTimer
    <2>2. CASE sys_timer_connect_event_queue(r)
      BY <2>2 DEF Lv2Typed, Timed, sys_timer_connect_event_queue, Timer
    <2>3. CASE sys_timer_disconnect_event_queue(r)
      BY <2>3 DEF Lv2Typed, Timed, sys_timer_disconnect_event_queue, Timer
    <2>4. CASE sys_timer_start(period, r)
      BY <2>4 DEF Lv2Typed, Timed, sys_timer_start, Timer
    <2>5. CASE sys_timer_get_information(r)
      BY <2>5 DEF Lv2Typed, Timed, sys_timer_get_information, OthersUnchanged
    <2> QED BY <2>1, <2>2, <2>3, <2>4, <2>5
  <1> QED BY <1>2, <1>3 DEF Lv2Typed

\* The timer expires, or there is a vertical blank.
LEMMA DeviceKeeps == ASSUME Lv2Typed, Expire \/ VBlank PROVE Lv2Typed'
  <1>1. CASE VBlank
    BY <1>1, SendKeeps DEF VBlank, Lv2Typed, Timed, Switched
  <1>2. CASE Expire
    <2>1. Timed'
      BY <1>2, KernelTestsAssumption DEF Expire, Lv2Typed, Timed, KernelTestsAssumption
    <2> QED BY <1>2, <2>1, SendKeeps DEF Expire, Lv2Typed, Switched
  <1> QED BY <1>1, <1>2

\* The same of the mutexes.
LEMMA MutexesKeep ==
  ASSUME Lv2Typed, NEW m, NEW r,
         \/ lv2_lwmutex_lock(m, r) \/ lv2_lwmutex_trylock(m, r) \/ lv2_lwmutex_unlock(m, r)
         \/ lv2_lwmutex_117(m, r) \/ lv2_lwcond_wait(m, r)
  PROVE  Lv2Typed'
  <1>1. PICK new : /\ Marks(m, new)
                   /\ new \in {{}, marks[m], marks[m] \cup {"unlocked"}, marks[m] \cup {"117"}}
    BY DEF lv2_lwmutex_lock, lv2_lwmutex_trylock, lv2_lwmutex_unlock, lv2_lwmutex_117,
       lv2_lwcond_wait
  <1>2. m \in Mutexes => new \in SUBSET {"unlocked", "117"}
    BY <1>1 DEF Lv2Typed, Marked
  <1>3. Marked'
    BY <1>1, <1>2 DEF Lv2Typed, Marked, Marks
  <1> QED BY <1>1, <1>3 DEF Marks, Lv2Typed, Threaded, Queued, Timed, Switched

\* A call keeps the types, whatever its arguments are.
LEMMA CallKeeps ==
  ASSUME Lv2Typed, NEW t \in Threads, NEW c, c = Instruction(t), NEW r, Calls(t, c, r)
  PROVE  Lv2Typed'
  <1>1. CASE UNCHANGED lv2
    BY <1>1 DEF lv2, Lv2Typed, Threaded, Queued, Marked, Timed, Switched
  <1>2. CASE KernelCalls(t, c, r)
    BY <1>2, ThreadsKeep, QueueKeeps, TimerKeeps, MutexesKeep, UnmapKeeps DEF KernelCalls
  <1>3. CASE CreateInterruptThread(r)
    BY <1>1, <1>3, ThreadsKeep DEF CreateInterruptThread
  <1>4. CASE sys_event_queue_destroy(r)
    BY <1>4, QueueKeeps
  <1>5. CASE \E u : sys_ppu_thread_join(u, "EFAULT")
    BY <1>5, ThreadsKeep
  <1> QED BY <1>1, <1>2, <1>3, <1>4, <1>5 DEF Calls

\* What steers a thread.
Control == Jumps \cup {"return", "exit", "store", "increment", "decrement"}

\* Of the calls two make threads, and none moves or writes for the others.
LEMMA CallIs ==
  ASSUME NEW t \in Threads, NEW c, c = Instruction(t), NEW r, Calls(t, c, r)
  PROVE  /\ c.op \notin Control
         /\ c.op = "thread_create" => sys_ppu_thread_create(c.arg, r)
         /\ c.op = "create_interrupt" => CreateInterruptThread(r)
         /\ c.op \notin {"thread_create", "create_interrupt"} => thread' = thread
  <1>1. CASE KernelCalls(t, c, r)
    <2>1. c.op \notin Control \cup {"create_interrupt"}
      BY <1>1 DEF KernelCalls, Control, Jumps
    <2>2. c.op = "thread_create" => sys_ppu_thread_create(c.arg, r)
      BY <1>1 DEF KernelCalls
    <2>3. c.op # "thread_create" => thread' = thread
      BY <1>1 DEF KernelCalls, sys_ppu_thread_join,
         sys_ppu_thread_set_priority, sys_event_queue_create, sys_event_queue_receive,
         sys_timer_create, sys_timer_destroy, sys_timer_connect_event_queue,
         sys_timer_disconnect_event_queue, sys_timer_start, sys_timer_get_information, Timer,
         lv2_lwmutex_lock, lv2_lwmutex_trylock, lv2_lwmutex_unlock, lv2_lwmutex_117,
         lv2_lwcond_wait, Marks, sys_spu_thread_bind_queue, sys_spu_thread_unbind_queue,
         sys_spu_thread_receive_event, sys_rsx_context_iomap, Unmap, Send
    <2> QED BY <2>1, <2>2, <2>3
  <1>2. CASE c.op = "create_interrupt" /\ CreateInterruptThread(r)
    BY <1>2 DEF Control, Jumps
  <1>3. CASE c.op = "queue_destroy" /\ sys_event_queue_destroy(r)
    BY <1>3 DEF Control, Jumps, sys_event_queue_destroy
  <1>4. CASE ServiceCalls(c, r) /\ UNCHANGED lv2
    BY <1>4 DEF ServiceCalls, Control, Jumps, lv2
  <1>6. CASE c.op = "memory" /\ UNCHANGED lv2
    BY <1>6 DEF Control, Jumps, lv2
  <1>5. CASE /\ c.op = "end"
             /\ \/ UNCHANGED lv2
                \/ sys_ppu_thread_join(ThreadOf(c.arg.i), "EFAULT")
    BY <1>5 DEF Control, Jumps, lv2, sys_ppu_thread_join
  <1> QED BY <1>1, <1>2, <1>3, <1>4, <1>5, <1>6 DEF Calls

\* A thread is made, or it ends, or it stays what it is.
ThreadsStep == \/ thread' = thread
               \/ \E u, s : s # "none" /\ thread' = [thread EXCEPT ![u] = s]

\* A thread that there is remains.
LEMMA ThreadsRemain ==
  ASSUME Typed, NEW t \in Threads, Runs(t)
  PROVE  /\ ThreadsStep
         /\ \A u \in Threads : thread'[u] = "none" => thread[u] = "none"
  <1>1. ThreadsStep
    <2>1. CASE Call(t)
      BY <2>1, CallIs DEF Call, ThreadsStep, sys_ppu_thread_create, CreateInterruptThread,
         sys_ppu_thread_create_interrupt, lv2
    <2>2. CASE MakeObject(t)
      BY <2>2 DEF MakeObject, ThreadsStep, sys_ppu_thread_create, lv2
    <2>3. CASE ~Call(t) /\ ~MakeObject(t)
      BY <2>3 DEF Runs, ReceiveEvent, Branch, PrintLine, WriteSignal, SaveResult, ExitThread,
         ThreadsStep, sys_event_queue_receive, sys_ppu_thread_exit, lv2
    <2> QED BY <2>1, <2>2, <2>3
  <1>2. \A u \in Threads : thread'[u] = "none" => thread[u] = "none"
    BY <1>1 DEF ThreadsStep, Typed, Lv2Typed, Threaded
  <1> QED BY <1>1, <1>2

\* What a thread's step does to the types, its own next instruction left aside.
LEMMA RunsKeeps ==
  ASSUME Typed, NEW t \in Threads, Runs(t), pos' \in [Threads -> Nat],
         \A u \in Threads \ {t} : pos'[u] = pos[u]
  PROVE  Typed'
  <1>1. Lv2Typed'
    <2>1. CASE Call(t)
      BY <2>1, CallKeeps DEF Call, Typed
    <2>2. CASE MakeObject(t)
      <3>1. CASE sys_ppu_thread_create(ThreadOf(Arg(t).i), "OK")
        BY <3>1, ThreadsKeep DEF Typed
      <3>2. CASE UNCHANGED lv2
        BY <3>2 DEF lv2, Typed, Lv2Typed, Timed, Queued, Marked, Threaded, Switched
      <3> QED BY <2>2, <3>1, <3>2 DEF MakeObject
    <2>3. CASE ReceiveEvent(t)
      BY <2>3, QueueKeeps DEF ReceiveEvent, Typed
    <2>4. CASE ExitThread(t)
      BY <2>4, ThreadsKeep DEF ExitThread, Typed
    <2>5. CASE UNCHANGED lv2
      BY <2>5 DEF lv2, Typed, Lv2Typed, Timed, Queued, Marked, Threaded, Switched
    <2> QED BY <2>1, <2>2, <2>3, <2>4, <2>5 DEF Runs, Branch, PrintLine, WriteSignal, SaveResult
  <1>2. Begun'
    <2>1. thread[t] = "runs"
      BY DEF Runs, Call, MakeObject, ReceiveEvent, Branch, PrintLine, WriteSignal, SaveResult,
             ExitThread, Fetch, CanRun
    <2> QED BY <2>1, ThreadsRemain DEF Begun, Typed
  <1>3. /\ ret' \in [Threads -> Results] /\ saved' \in Results
        /\ test' \in Tests /\ failed' \in BOOLEAN
    BY DEF Typed, Runs, Call, MakeObject, ReceiveEvent, Branch, PrintLine, WriteSignal, SaveResult,
           ExitThread
  <1>4. array' \in [Kinds -> [0..(Objects - 1) -> Id]]
    <2>1. CASE MakeObject(t)
      <3>1. PICK id \in [slot : Slots, generation : 0..(Generations - 1)] :
              array' = [array EXCEPT ![Arg(t).kind][Arg(t).i] = id]
        BY <2>1 DEF MakeObject
      <3>2. id \in Id
        BY <3>1 DEF Id
      <3> QED BY <3>1, <3>2 DEF Typed
    <2>2. CASE array' = array
      BY <2>2 DEF Typed
    <2> QED BY <2>1, <2>2 DEF Runs, Call, ReceiveEvent, Branch, PrintLine, WriteSignal, SaveResult,
               ExitThread
  <1> QED BY <1>1, <1>2, <1>3, <1>4 DEF Typed

\* The devices and the audio keep the types, and every thread where it is.
LEMMA BesideKeeps == ASSUME Typed, Device \/ Mix PROVE Typed'
  <1>1. Lv2Typed' /\ thread' = thread
    <2>1. CASE Device
      BY <2>1, DeviceKeeps DEF Device, Typed, Expire, VBlank, Send
    <2>2. CASE Mix
      BY <2>2, SendKeeps DEF Mix, Typed, Lv2Typed, Timed, Switched, Send
    <2> QED BY <2>1, <2>2
  <1> QED BY <1>1 DEF Typed, Begun, Device, Mix
-----------------------------------------------------------------------------
(* Programs.                                                               *)

\* From n on a program joins no thread, and does not go back.
LastOf(P, n) == \A k \in n..Len(P) : P[k].op \notin Jumps \cup {"join"}

\* A main joins the threads it has created, and jumps past the creation of one
\* only when it joins no more.
Joins(P) ==
  \A n \in 1..Len(P) :
    /\ P[n].op = "thread_create" => P[n].arg \in 1..4
    /\ P[n].op = "join" => \E m \in 1..(n - 1) : P[m].op = "thread_create" /\ P[m].arg = P[n].arg
    /\ P[n].op \in Jumps => \/ \A m \in n..(P[n].arg - 1) : P[m].op # "thread_create"
                            \/ LastOf(P, P[n].arg)

\* It stays inside its program, and tells the others no more than 2.
MainOk(P) ==
  /\ Len(P) \in Nat /\ Joins(P)
  /\ \A n \in 1..Len(P) : /\ P[n].op \in Jumps => P[n].arg \in 1..(Len(P) + 1)
                          /\ P[n].op = "store" => P[n].arg \in 1..2
                          /\ P[n].op # "set_priority"

\* The program of the other threads ends with the thread, and joins only main.
ThreadOk(P) ==
  /\ Len(P) \in Nat \ {0}
  /\ \A n \in 1..Len(P) : /\ P[n].op \in Jumps => P[n].arg \in 1..Len(P)
                          /\ P[n].op \notin {"exit", "goto"} => n < Len(P)
                          /\ P[n].op \notin {"thread_create", "return"}
                          /\ P[n].op = "store" => P[n].arg \in 1..2
                          /\ P[n].op = "join" => P[n].arg = 0

\* It does not count.
CountsNot(P) == \A n \in 1..Len(P) : P[n].op \notin {"increment", "decrement"}

\* It changes no priority.
SetsNot(P) == \A n \in 1..Len(P) : P[n].op # "set_priority"

\* A part of a main that is calls and lines, and no more.
Steering == Jumps \cup {"thread_create", "join", "set_priority", "store", "increment", "decrement"}
Plain(P) == \E S : P \in Seq(S) /\ \A c \in S : c.op \notin Steering

\* Two such parts make one.
LEMMA PlainConcat ==
  ASSUME NEW P, Plain(P), NEW Q, Plain(Q)
  PROVE  Plain(P \o Q)
  <1>1. PICK S : P \in Seq(S) /\ \A c \in S : c.op \notin Steering
    BY DEF Plain
  <1>2. PICK T : Q \in Seq(T) /\ \A c \in T : c.op \notin Steering
    BY DEF Plain
  <1>3. P \in Seq(S \cup T) /\ Q \in Seq(S \cup T)
    BY <1>1, <1>2, SeqMonotonic
  <1>4. P \o Q \in Seq(S \cup T)
    BY <1>3, ConcatProperties
  <1> QED BY <1>1, <1>2, <1>4 DEF Plain

\* An instruction does, and many that are one after the other.
LEMMA PlainEach ==
  ASSUME NEW n \in Nat, NEW P, NEW S, P \in [1..n -> S], \A c \in S : c.op \notin Steering
  PROVE  Plain(P)
  <1>1. P \in Seq(S)
    BY SeqDef
  <1> QED BY <1>1 DEF Plain

\* A plain main is as it should be.
LEMMA PlainIs == ASSUME NEW P, Plain(P) PROVE MainOk(P) /\ CountsNot(P)
  <1>1. PICK S : P \in Seq(S) /\ \A c \in S : c.op \notin Steering
    BY DEF Plain
  <1>2. Len(P) \in Nat /\ \A n \in 1..Len(P) : P[n].op \notin Steering
    BY <1>1, LenProperties, ElementOfSeq
  <1> QED BY <1>2 DEF MainOk, Joins, CountsNot, Steering, Jumps

\* The mains that create threads.
LEMMA Main_timer_overflow == MainOk(timer_overflow.main) /\ CountsNot(timer_overflow.main)
BY DEF MainOk, Joins, LastOf, CountsNot, Jumps, timer_overflow, TimerTest, TimerEnd, Create, Join,
       StartTimer, CreateQueue, ConnectTimer, DisconnectTimer, Finished, I, On, sysCell, ENSURE_OK,
       ENSURE_VAL

\* The main of timer_after_destruction.
LEMMA Main_timer_after_destruction ==
  MainOk(timer_after_destruction.main) /\ CountsNot(timer_after_destruction.main)
BY DEF MainOk, Joins, LastOf, CountsNot, Jumps, timer_after_destruction, TimerTest, TimerEnd,
       Create, Join, StartTimer, CreateQueue, ConnectTimer, DisconnectTimer, Finished,
       DestroyQueue, While, If, Store, I, On, sysCell, ENSURE_OK, ENSURE_VAL

\* That of timer_info.
LEMMA Main_timer_info == MainOk(timer_info.main) /\ CountsNot(timer_info.main)
BY DEF MainOk, Joins, LastOf, CountsNot, Jumps, timer_info, TimerTest, TimerEnd, Create, Join,
       StartTimer, CreateQueue, ConnectTimer, DisconnectTimer, Finished, Restart, DestroyQueue,
       While, If, Store, I, On, sysCell, ENSURE_OK, ENSURE_VAL

\* That of lwmutex_117.
LEMMA Main_lwmutex_117 == MainOk(lwmutex_117.main) /\ CountsNot(lwmutex_117.main)
BY DEF MainOk, Joins, LastOf, CountsNot, Jumps, lwmutex_117, Create, Join, Lock, TryLock, Unlock,
       Call117, I, On, sysCell, ENSURE_OK, ENSURE_VAL

\* That of main_thread_joinability.
LEMMA Main_main_thread_joinability ==
  MainOk(main_thread_joinability.main) /\ CountsNot(main_thread_joinability.main)
BY DEF MainOk, Joins, LastOf, CountsNot, Jumps, main_thread_joinability, While, If, Finished, I,
       On, sysCell, ENSURE_OK, ENSURE_VAL

\* That of set_priority.
LEMMA Main_set_priority == MainOk(set_priority.main) /\ CountsNot(set_priority.main)
BY DEF MainOk, Joins, LastOf, CountsNot, Jumps, set_priority, Create, Join, Store, I, On, sysCell,
       ENSURE_OK, ENSURE_VAL

\* That of bind_queue jumps past its thread to its last line.
LEMMA Main_bind_queue == MainOk(bind_queue.main) /\ CountsNot(bind_queue.main)
  <1> DEFINE P == bind_queue.main
  <1>1. Len(P) = 25
    BY DEF bind_queue, CreateBindDestroy
  <1>2. \A n \in 1..25 : /\ P[n].op = "thread_create" <=> n = 22
                         /\ P[n].op = "join" <=> n = 23
                         /\ P[n].op \in Jumps <=> n \in {11, 12, 15}
                         /\ P[n].op \notin {"store", "set_priority", "increment", "decrement"}
    BY DEF bind_queue, CreateBindDestroy, CreateQueue, DestroyQueue, Unbind, If, Goto, Jumps, I, On,
           sysCell, ENSURE_OK, ENSURE_VAL
  <1>3. P[11].arg = 16 /\ P[12].arg = 25 /\ P[15].arg = 17 /\ P[22].arg = 1 /\ P[23].arg = 1
    BY DEF bind_queue, CreateBindDestroy, If, Goto, I, On
  <1> HIDE DEF P
  <1>4. Joins(P)
    BY <1>1, <1>2, <1>3 DEF Joins, LastOf
  <1>5. MainOk(P) /\ CountsNot(P)
    BY <1>1, <1>2, <1>3, <1>4 DEF MainOk, CountsNot
  <1> QED BY <1>5 DEF P

\* Those of the two rsxunmapevent.
LEMMA Main_rsxunmapevent == MainOk(rsxunmapevent.main) /\ CountsNot(rsxunmapevent.main)
BY DEF MainOk, Joins, LastOf, CountsNot, Jumps, rsxunmapevent, DeviceMemoryContext, MapBlock, IoMap,
       UnmapMemory, JoinThread, MemoryCall, Create, Finished, I, On, sysCell, ENSURE_OK, ENSURE_VAL

\* The other.
LEMMA Main_rsxunmapevent_sys_memory ==
  MainOk(rsxunmapevent_sys_memory.main) /\ CountsNot(rsxunmapevent_sys_memory.main)
BY DEF MainOk, Joins, LastOf, CountsNot, Jumps, rsxunmapevent_sys_memory, DeviceMemoryContext,
       IoMap, UnmapMemory, JoinThread, MemoryCall, Create, Finished, I, On, sysCell, ENSURE_OK,
       ENSURE_VAL

\* The two that count.
LEMMA Main_lwcond_wait_timeout == MainOk(lwcond_wait_timeout.main)
BY DEF MainOk, Joins, LastOf, Jumps, lwcond_wait_timeout, While, If, Finished, I, On, sysCell,
       ENSURE_OK, ENSURE_VAL

\* That of threads_amount.
LEMMA Main_threads_amount == MainOk(threads_amount.main)
BY DEF MainOk, Joins, LastOf, Jumps, threads_amount, Alone, If, Goto, I, On, sysCell, ENSURE_OK,
       ENSURE_VAL

\* That of rsx_initialization, which branches.
LEMMA Main_rsx_initialization ==
  MainOk(rsx_initialization.main) /\ CountsNot(rsx_initialization.main)
BY DEF MainOk, Joins, LastOf, CountsNot, Jumps, rsx_initialization, Alone, MemoryCall, If, Finished,
       I, On, sysCell, ENSURE_OK, ENSURE_VAL

\* The others are calls and lines.
LEMMA Main_audio_set_notify_queue ==
  MainOk(audio_set_notify_queue.main) /\ CountsNot(audio_set_notify_queue.main)
BY DEF MainOk, Joins, LastOf, CountsNot, Jumps, audio_set_notify_queue, Alone, CreateNotifyQueue,
       CreateQueue, DestroyQueue, AwaitEvent, Notify, Unnotify, Finished, I, On, sysCell,
       ENSURE_OK, ENSURE_VAL

\* That of camera_update_start.
LEMMA Main_camera_update_start ==
  MainOk(camera_update_start.main) /\ CountsNot(camera_update_start.main)
BY DEF MainOk, Joins, LastOf, CountsNot, Jumps, camera_update_start, Alone, UpdateStart,
       UpdateFinish, Finished, I, On, sysCell, ENSURE_OK, ENSURE_VAL

\* That of rsx_iounmap.
LEMMA Main_rsx_iounmap == MainOk(rsx_iounmap.main) /\ CountsNot(rsx_iounmap.main)
BY DEF MainOk, Joins, LastOf, CountsNot, Jumps, rsx_iounmap, Alone, DeviceMemoryContext, Repeat,
       MemoryCall, Finished, I, On, sysCell, ENSURE_OK, ENSURE_VAL

\* That of rsx_base_address.
LEMMA Main_rsx_base_address == MainOk(rsx_base_address.main) /\ CountsNot(rsx_base_address.main)
BY DEF MainOk, Joins, LastOf, CountsNot, Jumps, rsx_base_address, Alone, DeviceMemoryContext,
       MemoryCall, Finished, I, On, sysCell, ENSURE_OK, ENSURE_VAL

\* That of rsx_base_address_2.
LEMMA Main_rsx_base_address_2 ==
  MainOk(rsx_base_address_2.main) /\ CountsNot(rsx_base_address_2.main)
BY DEF MainOk, Joins, LastOf, CountsNot, Jumps, rsx_base_address_2, Alone, MemoryCall, Trap, If,
       Finished, I, On, sysCell, ENSURE_OK, ENSURE_VAL

\* That of rsx_set_reference.
LEMMA Main_rsx_set_reference == MainOk(rsx_set_reference.main) /\ CountsNot(rsx_set_reference.main)
BY DEF MainOk, Joins, LastOf, CountsNot, Jumps, rsx_set_reference, Alone, I, On, sysCell,
       ENSURE_OK, ENSURE_VAL

\* That of audio_set_notify_queue_ex receives as many events as there are to be.
LEMMA Main_audio_set_notify_queue_ex ==
  MainOk(audio_set_notify_queue_ex.main) /\ CountsNot(audio_set_notify_queue_ex.main)
  <1> DEFINE Before == <<CreateNotifyQueue, sysCell(Notify("some"))>>
             After == <<On("print", "passed"), sysCell(Unnotify("all")), sysCell(Unnotify("some"))>>
  <1>1. Plain(Before)
    <2> DEFINE Each == {CreateNotifyQueue, sysCell(Notify("some"))}
    <2>1. Before \in [1..2 -> Each]
      OBVIOUS
    <2>2. CreateNotifyQueue.op = "queue_create" /\ sysCell(Notify("some")).op = "set_notify"
      BY DEF CreateNotifyQueue, CreateQueue, Notify, I, On, sysCell, ENSURE_OK, ENSURE_VAL
    <2>3. \A c \in Each : c.op \notin Steering
      BY <2>2 DEF Steering, Jumps
    <2>4. 2 \in Nat
      OBVIOUS
    <2> HIDE DEF Before, Each
    <2> QED BY <2>1, <2>3, <2>4, PlainEach
  <1>2. Plain(After)
    <2> DEFINE Each == {On("print", "passed"), sysCell(Unnotify("all")), sysCell(Unnotify("some"))}
    <2>1. After \in [1..3 -> Each]
      OBVIOUS
    <2>2. /\ On("print", "passed").op = "print" /\ sysCell(Unnotify("all")).op = "remove_notify"
          /\ sysCell(Unnotify("some")).op = "remove_notify"
      BY DEF Unnotify, On, sysCell
    <2>3. \A c \in Each : c.op \notin Steering
      BY <2>2 DEF Steering, Jumps
    <2>4. 3 \in Nat
      OBVIOUS
    <2> HIDE DEF After, Each
    <2> QED BY <2>1, <2>3, <2>4, PlainEach
  <1>3. Plain(Repeat(Events, AwaitEvent))
    <2>1. Events \in Nat
      BY KernelTestsAssumption DEF KernelTestsAssumption
    <2> DEFINE Each == {AwaitEvent}
    <2>2. Repeat(Events, AwaitEvent) \in [1..Events -> Each]
      BY DEF Repeat
    <2>3. AwaitEvent.op = "queue_receive"
      BY DEF AwaitEvent, On, ENSURE_VAL
    <2>4. \A c \in Each : c.op \notin Steering
      BY <2>3 DEF Steering, Jumps
    <2> HIDE DEF Each
    <2> QED BY <2>1, <2>2, <2>4, PlainEach
  <1>4. Plain(Before \o Repeat(Events, AwaitEvent))
    BY <1>1, <1>3, PlainConcat
  <1>5. Plain((Before \o Repeat(Events, AwaitEvent)) \o After)
    BY <1>2, <1>4, PlainConcat
  <1>6. audio_set_notify_queue_ex.main = (Before \o Repeat(Events, AwaitEvent)) \o After
    BY DEF audio_set_notify_queue_ex, Alone
  <1> QED BY <1>5, <1>6, PlainIs

\* That of ids_invalidations makes and ends as many objects as there are to be.
LEMMA Main_ids_invalidations ==
  MainOk(ids_invalidations.main) /\ CountsNot(ids_invalidations.main)
  <1>1. ASSUME NEW kind PROVE Plain(OneAfterTheOther(kind))
    <2> DEFINE Made == {Make(kind, i) : i \in Nat}
               Over == {End(kind, i) : i \in Nat}
               Middle == [n \in 1..(2 * (Objects - 1)) |->
                           IF n % 2 = 1 THEN Make(kind, (n + 1) \div 2) ELSE End(kind, n \div 2)]
    <2>1. \A c \in Made \cup Over : c.op \notin Steering
      <3>1. \A i : Make(kind, i).op = "make" /\ End(kind, i).op = "end"
        BY DEF Make, End, On, ENSURE_OK, ENSURE_VAL
      <3> QED BY <3>1 DEF Steering, Jumps
    <2>2. 2 * (Objects - 1) \in Nat
      BY KernelTestsAssumption DEF KernelTestsAssumption
    <2>3. Middle \in [1..(2 * (Objects - 1)) -> Made \cup Over]
      <3>1. ASSUME NEW n \in 1..(2 * (Objects - 1)) PROVE Middle[n] \in Made \cup Over
        <4>1. n \in Nat /\ (n + 1) \div 2 \in Nat /\ n \div 2 \in Nat
          BY <2>2
        <4> QED BY <4>1
      <3> QED BY <3>1
    <2>4. Plain(Middle)
      <3> HIDE DEF Made, Over, Middle
      <3> QED BY <2>1, <2>2, <2>3, PlainEach
    <2>5. Plain(<<Make(kind, 0)>>) /\ Plain(<<End(kind, 0)>>)
      <3>1. /\ <<Make(kind, 0)>> \in [1..1 -> Made \cup Over]
            /\ <<End(kind, 0)>> \in [1..1 -> Made \cup Over]
        OBVIOUS
      <3> HIDE DEF Made, Over
      <3> QED BY <2>1, <3>1, PlainEach
    <2>6. OneAfterTheOther(kind) = (<<Make(kind, 0)>> \o Middle) \o <<End(kind, 0)>>
      BY DEF OneAfterTheOther
    <2> HIDE DEF Middle
    <2>7. Plain(<<Make(kind, 0)>> \o Middle)
      BY <2>4, <2>5, PlainConcat
    <2> QED BY <2>5, <2>6, <2>7, PlainConcat
  <1>2. Plain(<<Finished>>)
    <2>1. <<Finished>> \in [1..1 -> {Finished}] /\ Finished.op = "print"
      BY DEF Finished, On
    <2> QED BY <2>1, PlainEach DEF Steering, Jumps
  <1>3. Plain(OneAfterTheOther("mutex") \o OneAfterTheOther("thread"))
    BY <1>1, PlainConcat
  <1>4. Plain(OneAfterTheOther("mutex") \o OneAfterTheOther("thread") \o OneAfterTheOther("group"))
    BY <1>1, <1>3, PlainConcat
  <1>5. Plain(OneAfterTheOther("mutex") \o OneAfterTheOther("thread") \o OneAfterTheOther("group")
              \o OneAfterTheOther("memory"))
    BY <1>1, <1>4, PlainConcat
  <1>6. Plain(ids_invalidations.main)
    BY <1>2, <1>5, PlainConcat DEF ids_invalidations, Alone
  <1> QED BY <1>6, PlainIs

\* The programs of the threads beside main: those that receive events.
LEMMA Thread_timers == 
  /\ ThreadOk(timer_overflow.thread) /\ CountsNot(timer_overflow.thread)
  /\ SetsNot(timer_overflow.thread)
  /\ ThreadOk(timer_after_destruction.thread) /\ CountsNot(timer_after_destruction.thread)
  /\ SetsNot(timer_after_destruction.thread)
  /\ ThreadOk(timer_info.thread) /\ CountsNot(timer_info.thread)
  /\ SetsNot(timer_info.thread)
  /\ ThreadOk(threadEntry) /\ CountsNot(threadEntry) /\ SetsNot(threadEntry)
  /\ ThreadOk(bind_queue.thread) /\ CountsNot(bind_queue.thread)
  /\ SetsNot(bind_queue.thread)
BY DEF ThreadOk, CountsNot, SetsNot, Jumps, timer_overflow, timer_after_destruction, timer_info,
       bind_queue, threadEntry, _rec, Receive, If, Goto, Exit, I, On

\* The others.
LEMMA Thread_others == 
  /\ ThreadOk(lwmutex_117.thread) /\ CountsNot(lwmutex_117.thread)
  /\ SetsNot(lwmutex_117.thread)
  /\ ThreadOk(main_thread_joinability.thread) /\ CountsNot(main_thread_joinability.thread)
  /\ SetsNot(main_thread_joinability.thread)
  /\ ThreadOk(set_priority.thread) /\ CountsNot(set_priority.thread)
  /\ ThreadOk(lwcond_wait_timeout.thread) /\ SetsNot(lwcond_wait_timeout.thread)
BY DEF ThreadOk, CountsNot, SetsNot, Jumps, lwmutex_117, main_thread_joinability, set_priority,
       Waiter, SetPriorities, lwcond_wait_timeout, threadWait, test_lock, Store, While, If, Goto,
       Exit, I, On

\* Where there is no thread beside main, or one that exits at once.
LEMMA Thread_alone ==
  \A P : ThreadOk(Alone(P).thread) /\ CountsNot(Alone(P).thread) /\ SetsNot(Alone(P).thread)
BY DEF ThreadOk, CountsNot, SetsNot, Jumps, Alone, Exit, I, On

\* Which programs count.
Counting == {"lwcond_wait_timeout", "threads_amount"}

\* Every program is as it should be.
LEMMA ProgramsOk ==
  ASSUME NEW x \in DOMAIN Programs
  PROVE  /\ MainOk(Programs[x].main) /\ ThreadOk(Programs[x].thread)
         /\ x \notin Counting => CountsNot(Programs[x].main) /\ CountsNot(Programs[x].thread)
         /\ x # "set_priority" => SetsNot(Programs[x].thread)
  <1>1. CASE x \in {"timer_overflow", "timer_after_destruction", "timer_info", "lwmutex_117",
                    "lwcond_wait_timeout", "main_thread_joinability", "set_priority", "bind_queue"}
    BY <1>1, Main_timer_overflow, Main_timer_after_destruction, Main_timer_info, Main_lwmutex_117,
       Main_lwcond_wait_timeout, Main_main_thread_joinability, Main_set_priority, Main_bind_queue,
       Thread_timers, Thread_others
       DEF Programs, Counting
  <1>2. CASE x \in {"audio_set_notify_queue", "audio_set_notify_queue_ex", "camera_update_start",
                    "threads_amount", "rsx_initialization", "rsx_iounmap", "rsx_base_address",
                    "rsx_base_address_2", "rsx_set_reference", "ids_invalidations"}
    <2>1. MainOk(Programs[x].main) /\ (x \notin Counting => CountsNot(Programs[x].main))
      BY <1>2, Main_audio_set_notify_queue_ex, Main_threads_amount, Main_rsx_initialization,
         Main_audio_set_notify_queue, Main_camera_update_start, Main_rsx_iounmap,
         Main_rsx_base_address, Main_rsx_base_address_2, Main_rsx_set_reference,
         Main_ids_invalidations
         DEF Programs, Counting
    <2>2. \E P : Programs[x] = Alone(P)
      BY <1>2 DEF Programs, audio_set_notify_queue, audio_set_notify_queue_ex, camera_update_start,
         threads_amount, rsx_initialization, rsx_iounmap, rsx_base_address, rsx_base_address_2,
         rsx_set_reference, ids_invalidations
    <2> QED BY <2>1, <2>2, Thread_alone
  <1>3. CASE x \in {"rsxunmapevent", "rsxunmapevent_sys_memory"}
    <2>1. /\ MainOk(Programs[x].main) /\ CountsNot(Programs[x].main)
          /\ Programs[x] \in {rsxunmapevent, rsxunmapevent_sys_memory}
      BY <1>3, Main_rsxunmapevent, Main_rsxunmapevent_sys_memory DEF Programs
    <2>2. Programs[x].thread = threadEntry
      BY <2>1 DEF rsxunmapevent, rsxunmapevent_sys_memory
    <2> QED BY <2>1, <2>2, Thread_timers
  <1> QED BY <1>1, <1>2, <1>3 DEF Programs
-----------------------------------------------------------------------------
(* Steps.                                                                  *)

\* Where a thread at the instruction c can go.
GoesOn(t, c) ==
  \/ pos'[t] = pos[t] + 1 /\ c.op \notin {"goto", "return", "exit"}
  \/ pos'[t] = c.arg /\ c.op \in Jumps
  \/ pos'[t] = Len(Program(t)) + 1 /\ c.op = "return"
  \/ pos'[t] = pos[t] /\ c.op = "exit"

\* What the others see of a thread's step.
LEMMA RunIs ==
  ASSUME Typed, NEW t \in Threads, Runs(t), NEW c, c = Instruction(t)
  PROVE  /\ ~failed /\ ~Returned /\ thread[t] = "runs" /\ test' = test
         /\ GoesOn(t, c) /\ \A u \in Threads \ {t} : pos'[u] = pos[u]
         /\ pos' = [u \in Threads |-> pos'[u]]
         /\ c.op = "store" => signal' = c.arg
         /\ c.op = "increment" => signal' = signal + 1
         /\ c.op = "decrement" => signal' = signal - 1
         /\ c.op \notin {"store", "increment", "decrement"} => signal' = signal
  <1>1. ~failed /\ ~Returned /\ thread[t] = "runs" /\ test' = test
    BY DEF Runs, Call, MakeObject, ReceiveEvent, Branch, PrintLine, WriteSignal, SaveResult,
           ExitThread, Fetch, CanRun
  <1>2. CASE Call(t)
    <2>1. c.op \notin Control
      BY <1>2, CallIs DEF Call
    <2> QED BY <1>1, <1>2, <2>1 DEF Call, Next_, Goes, GoesOn, Control, Jumps, Typed, Begun
  <1>3. CASE MakeObject(t) \/ PrintLine(t) \/ SaveResult(t)
    BY <1>1, <1>3 DEF MakeObject, PrintLine, SaveResult, Fetch, Next_, Goes, GoesOn, Typed, Begun
  <1>4. CASE ReceiveEvent(t)
    BY <1>1, <1>4 DEF ReceiveEvent, Fetch, Next_, Goes, Arg, GoesOn, Jumps, Typed, Begun
  <1>5. CASE Branch(t)
    BY <1>1, <1>5 DEF Branch, Fetch, Next_, Goes, Arg, GoesOn, Jumps, Typed, Begun
  <1>6. CASE WriteSignal(t)
    BY <1>1, <1>6 DEF WriteSignal, Fetch, Next_, Goes, Arg, GoesOn, Typed, Begun
  <1>7. CASE ExitThread(t)
    BY <1>1, <1>7 DEF ExitThread, Fetch, GoesOn, Typed, Begun
  <1> QED BY <1>2, <1>3, <1>4, <1>5, <1>6, <1>7 DEF Runs

\* The thread that is created is there.
LEMMA CreateMakes ==
  ASSUME Typed, NEW t \in Threads, Runs(t), Instruction(t).op = "thread_create",
         Instruction(t).arg \in Threads
  PROVE  thread' = [thread EXCEPT ![Instruction(t).arg] = "runs"]
  <1>1. Call(t)
    BY DEF Runs, MakeObject, ReceiveEvent, Branch, PrintLine, WriteSignal, SaveResult, ExitThread,
           Fetch
  <1> QED BY <1>1, CallIs DEF Call, sys_ppu_thread_create
-----------------------------------------------------------------------------
(* The invariant.                                                          *)

\* A thread stays in its program.
Positions == /\ pos[0] \in 1..(Len(Program(0)) + 1)
             /\ \A t \in Threads \ {0} : pos[t] \in 1..Len(Program(t))

\* What main has created is there, unless it joins no more.
Made == LET P == Program(0)
        IN  \A m \in 1..(pos[0] - 1) :
              P[m].op = "thread_create" => thread[P[m].arg] # "none" \/ LastOf(P, pos[0])

\* Main is there from the start.
MainThere == thread[0] # "none"

\* The threads of set_priority begin when main has created them all.
Told == test = "set_priority" =>
          /\ signal # 0 => pos[0] > 5
          /\ \A t \in Threads \ {0} : pos[t] > 1 => signal # 0
          /\ \A n \in 1..4 : pos[0] > n => thread[n] # "none"

\* Main counts a thread before it creates it, and a thread counts itself off last.
Less(t) == IF pos[t] > 6 THEN 1 ELSE 0
Counted == test = "lwcond_wait_timeout" =>
             /\ thread[3] = "none" /\ thread[4] = "none"
             /\ thread[1] # "none" => pos[0] > 2
             /\ thread[2] # "none" => pos[0] > 4
             /\ signal \in 0..2
             /\ signal + Less(1) + Less(2) = IF pos[0] > 3 THEN 2 ELSE IF pos[0] > 1 THEN 1 ELSE 0

\* Main counts the interrupt threads it has got.
Amount == test = "threads_amount" =>
            \E k \in 0..4 :
              /\ thread[0] = "runs"
              /\ \A t \in Threads \ {0} : thread[t] = IF t <= k THEN "interrupt" ELSE "none"
              /\ signal \in 0..4
              /\ signal = IF pos[0] = 3 \/ (pos[0] = 2 /\ ret[0] = "OK") THEN k - 1 ELSE k

Signalled == test \notin Counting => signal \in 0..2

KInv == Typed /\ Positions /\ Made /\ MainThere /\ Told /\ Signalled /\ Counted /\ Amount
-----------------------------------------------------------------------------
(* Each part is kept.                                                      *)

\* There are five threads.
USE DEF Threads

\* The programs that run.
LEMMA RunningOk ==
  ASSUME test \in Tests
  PROVE  /\ MainOk(Program(0))
         /\ \A t \in Threads \ {0} : ThreadOk(Program(t))
         /\ test \notin Counting => \A t \in Threads : CountsNot(Program(t))
         /\ test # "set_priority" => \A t \in Threads \ {0} : SetsNot(Program(t))
BY ProgramsOk, KernelTestsAssumption DEF KernelTestsAssumption, Program

\* A thread's step keeps it in its program.
LEMMA PositionsKept ==
  ASSUME Typed, Positions, NEW t \in Threads, Runs(t)
  PROVE  Positions' /\ pos' \in [Threads -> Nat] /\ Program(t)[pos[t]] = Instruction(t)
         /\ pos[t] \in 1..Len(Program(t))
  <1> DEFINE c == Instruction(t)
  <1>1. ~Returned /\ test' = test /\ GoesOn(t, c) /\ \A u \in Threads \ {t} : pos'[u] = pos[u]
    BY RunIs
  <1>2. /\ MainOk(Program(0)) /\ \A u \in Threads \ {0} : ThreadOk(Program(u))
    BY RunningOk DEF Typed
  <1>3. pos[t] \in 1..Len(Program(t)) /\ c = Program(t)[pos[t]]
    BY <1>1, <1>2 DEF Positions, Returned, Instruction, MainOk
  <1>4. pos'[t] \in 1..Len(Program(t)) \/ (t = 0 /\ pos'[t] = Len(Program(t)) + 1)
    <2> DEFINE P == Program(t)
    <2>1. CASE t = 0
      <3>1. MainOk(P)
        BY <1>2, <2>1
      <3>2. Len(P) \in Nat /\ (c.op \in Jumps => c.arg \in 1..(Len(P) + 1))
        BY <1>3, <3>1 DEF MainOk
      <3> QED BY <1>1, <1>3, <2>1, <3>2 DEF GoesOn
    <2>2. CASE t # 0
      <3>1. ThreadOk(P)
        BY <1>2, <2>2
      <3>2. /\ Len(P) \in Nat /\ (c.op \in Jumps => c.arg \in 1..Len(P))
            /\ c.op \notin {"exit", "goto"} => pos[t] < Len(P)
            /\ c.op # "return"
        BY <1>3, <3>1 DEF ThreadOk
      <3> QED BY <1>1, <1>3, <2>2, <3>2 DEF GoesOn
    <2> QED BY <2>1, <2>2
  <1>5. \A u \in Threads : Len(Program(u)) \in Nat
    BY <1>2 DEF MainOk, ThreadOk
  <1>6. Positions'
    BY <1>1, <1>4, <1>5 DEF Positions, Program
  <1>7. pos' \in [Threads -> Nat]
    <2>1. pos'[t] \in Nat
      BY <1>4, <1>5
    <2> QED BY <1>1, <2>1, RunIs DEF Typed, Begun
  <1> QED BY <1>3, <1>6, <1>7

\* What main has created it joins, and what it has not it does not.
LEMMA MadeKept ==
  ASSUME Typed, Positions, Made, NEW t \in Threads, Runs(t)
  PROVE  Made'
  <1> DEFINE P == Program(0)
             c == Instruction(t)
  <1>1. /\ test' = test /\ GoesOn(t, c) /\ \A u \in Threads \ {t} : pos'[u] = pos[u]
        /\ \A u \in Threads : thread'[u] = "none" => thread[u] = "none"
    BY RunIs, ThreadsRemain
  <1>2. c = Program(t)[pos[t]] /\ pos[t] \in 1..Len(Program(t))
    BY PositionsKept
  <1>3. MainOk(P) /\ Program(0)' = P
    BY <1>1, RunningOk DEF Typed, Program
  <1>4. Len(P) \in Nat /\ pos[0] \in 1..(Len(P) + 1) /\ pos'[0] \in 1..(Len(P) + 1)
    BY <1>3, PositionsKept DEF MainOk, Positions
  <1> SUFFICES ASSUME NEW m \in 1..(pos'[0] - 1), P[m].op = "thread_create"
               PROVE  thread'[P[m].arg] # "none" \/ LastOf(P, pos'[0])
    BY <1>3 DEF Made
  <1>5. m \in 1..Len(P) /\ P[m].arg \in Threads
    BY <1>3, <1>4 DEF MainOk, Joins
  <1>6. CASE m < pos[0]
    <2>1. CASE LastOf(P, pos[0])
      <3>1. pos'[0] \in Nat /\ pos'[0] >= pos[0]
        BY <1>1, <1>2, <1>4, <2>1 DEF LastOf, GoesOn, Jumps
      <3> QED BY <1>4, <2>1, <3>1 DEF LastOf
    <2>2. CASE ~LastOf(P, pos[0])
      <3>1. thread[P[m].arg] # "none"
        BY <1>4, <1>6, <2>2 DEF Made
      <3> QED BY <1>1, <1>5, <3>1
    <2> QED BY <2>1, <2>2
  <1>7. CASE m >= pos[0]
    <2>1. t = 0 /\ c = P[pos[0]] /\ pos[0] \in 1..Len(P)
      BY <1>1, <1>2, <1>4, <1>7
    <2>2. CASE c.op = "thread_create" /\ m = pos[0]
      <3>1. thread' = [thread EXCEPT ![c.arg] = "runs"]
        BY <1>5, <2>1, <2>2, CreateMakes
      <3> QED BY <1>5, <2>1, <2>2, <3>1 DEF Typed, Lv2Typed, Threaded
    <2>3. CASE pos'[0] = pos[0] + 1 /\ m # pos[0]
      BY <1>4, <1>7, <2>3
    <2>4. CASE c.op \in Jumps /\ pos'[0] = c.arg
      <3>1. \/ \A k \in pos[0]..(c.arg - 1) : P[k].op # "thread_create"
            \/ LastOf(P, c.arg)
        BY <1>3, <2>1, <2>4 DEF MainOk, Joins
      <3> QED BY <1>4, <1>5, <1>7, <2>4, <3>1
    <2>5. CASE c.op = "return" /\ pos'[0] = Len(P) + 1
      BY <1>4, <2>5 DEF LastOf
    <2> QED BY <1>1, <1>4, <1>7, <2>1, <2>2, <2>3, <2>4, <2>5 DEF GoesOn
  <1> QED BY <1>4, <1>5, <1>6, <1>7

\* Only the two that count go beyond 2.
LEMMA SignalledKept ==
  ASSUME Typed, Positions, Signalled, NEW t \in Threads, Runs(t)
  PROVE  Signalled'
  <1> DEFINE c == Instruction(t)
  <1>1. /\ test' = test /\ (c.op = "store" => signal' = c.arg)
        /\ c.op \notin {"store", "increment", "decrement"} => signal' = signal
    BY RunIs
  <1>2. c = Program(t)[pos[t]] /\ pos[t] \in 1..Len(Program(t))
    BY PositionsKept
  <1>3. /\ test \notin Counting => CountsNot(Program(t))
        /\ MainOk(Program(0)) /\ \A u \in Threads \ {0} : ThreadOk(Program(u))
    BY RunningOk DEF Typed
  <1>4. test \notin Counting => c.op \notin {"increment", "decrement"}
    BY <1>2, <1>3 DEF CountsNot
  <1>5. c.op = "store" => c.arg \in 1..2
    <2>1. CASE t = 0
      BY <1>2, <1>3, <2>1 DEF MainOk
    <2>2. CASE t # 0
      BY <1>2, <1>3, <2>2 DEF ThreadOk
    <2> QED BY <2>1, <2>2
  <1> QED BY <1>1, <1>4, <1>5 DEF Signalled

\* What the programs of set_priority are.
LEMMA PrioritiesAre ==
  ASSUME test = "set_priority"
  PROVE  /\ Len(Program(0)) = 11
         /\ \A n \in 1..11 : /\ Program(0)[n].op \notin Jumps \cup {"return", "exit"}
                             /\ n <= 4 => /\ Program(0)[n].op = "thread_create"
                                          /\ Program(0)[n].arg = n
                             /\ Program(0)[n].op = "store" => n \in 5..6 /\ Program(0)[n].arg # 0
         /\ \A t \in Threads \ {0} :
              /\ Len(Program(t)) = 7
              /\ \A n \in 1..7 :
                   Program(t)[n].op \notin {"store", "increment", "decrement", "return"}
              /\ \A n \in 1..7 : Program(t)[n].op = "set_priority" => Program(t)[n].arg \in 1..3
              /\ Program(t)[1].op = "if" /\ Program(t)[1].condition = "signal_is_not_0"
              /\ Program(t)[1].arg = 1
BY DEF Program, Programs, set_priority, Waiter, SetPriorities, Create, Join, Store, While, If, Goto,
       Exit, I, On, ENSURE_OK, ENSURE_VAL, Jumps

\* A thread that branches goes on when the condition holds.
LEMMA IfIs ==
  ASSUME Typed, NEW t \in Threads, Runs(t), Instruction(t).op = "if"
  PROVE  pos'[t] = IF Holds(t, Instruction(t).condition) THEN pos[t] + 1 ELSE Instruction(t).arg
  <1>1. Branch(t)
    BY CallIs DEF Runs, Call, MakeObject, ReceiveEvent, PrintLine, WriteSignal, SaveResult,
       ExitThread, Fetch, Control, Jumps
  <1> QED BY <1>1 DEF Branch, Fetch, Next_, Goes, Arg, Typed, Begun

\* No thread of set_priority begins before main has created the last.
LEMMA ToldKept ==
  ASSUME Typed, Positions, Told, NEW t \in Threads, Runs(t)
  PROVE  Told'
  <1> DEFINE c == Instruction(t)
  <1>1. /\ test' = test /\ GoesOn(t, c) /\ \A u \in Threads \ {t} : pos'[u] = pos[u]
        /\ c.op = "store" => signal' = c.arg
        /\ c.op \notin {"store", "increment", "decrement"} => signal' = signal
        /\ \A u \in Threads : thread'[u] = "none" => thread[u] = "none"
    BY RunIs, ThreadsRemain
  <1>2. /\ c = Program(t)[pos[t]] /\ pos[t] \in 1..Len(Program(t))
    BY PositionsKept
  <1>3. \A u \in Threads : pos[u] \in Nat
    BY DEF Typed, Begun
  <1> SUFFICES ASSUME test = "set_priority"
               PROVE  /\ signal' # 0 => pos'[0] > 5
                      /\ \A u \in Threads \ {0} : pos'[u] > 1 => signal' # 0
                      /\ \A n \in 1..4 : pos'[0] > n => thread'[n] # "none"
    BY <1>1 DEF Told
  <1>4. c.op \notin {"increment", "decrement"}
    BY <1>2, RunningOk DEF Typed, CountsNot, Counting
  <1>5. CASE t = 0
    <2>1. /\ c.op \notin Jumps \cup {"return", "exit"}
          /\ c.op = "store" => pos[0] \in 5..6 /\ c.arg # 0
          /\ pos[0] \in 1..4 => c.op = "thread_create" /\ c.arg = pos[0]
      <3>1. pos[0] \in 1..11 /\ c = Program(0)[pos[0]]
        BY <1>2, <1>5, PrioritiesAre
      <3> HIDE DEF c
      <3> QED BY <3>1, PrioritiesAre
    <2>2. pos'[0] = pos[0] + 1 /\ (c.op = "store" => pos[0] >= 5 /\ signal' # 0)
      BY <1>1, <1>5, <2>1 DEF GoesOn
    <2>3. pos[0] \in 1..4 => thread'[pos[0]] # "none"
      <3> HAVE pos[0] \in 1..4
      <3>1. thread' = [thread EXCEPT ![pos[0]] = "runs"]
        BY <1>5, <2>1, CreateMakes
      <3> QED BY <3>1 DEF Typed, Lv2Typed, Threaded
    <2> QED BY <1>1, <1>3, <1>4, <1>5, <2>1, <2>2, <2>3 DEF Told
  <1>6. CASE t # 0
    <2>1. signal' = signal
      <3>1. pos[t] \in 1..7
        BY <1>2, <1>6, PrioritiesAre
      <3>2. \A n \in 1..7 : Program(t)[n].op # "store"
        BY <1>6, PrioritiesAre
      <3>3. c.op # "store"
        BY <1>2, <3>1, <3>2
      <3> QED BY <1>1, <1>4, <3>3
    <2>2. pos[t] = 1 /\ pos'[t] > 1 => signal # 0
      <3> HAVE pos[t] = 1 /\ pos'[t] > 1
      <3>1. c.op = "if" /\ c.condition = "signal_is_not_0" /\ c.arg = 1
        BY <1>2, <1>6, PrioritiesAre
      <3>2. Holds(t, "signal_is_not_0")
        BY <3>1, IfIs
      <3> QED BY <3>2 DEF Holds
    <2>3. pos'[t] > 1 => signal # 0
      BY <1>2, <1>3, <1>6, <2>2 DEF Told
    <2> QED BY <1>1, <1>6, <2>1, <2>3 DEF Told
  <1> QED BY <1>5, <1>6

\* The instructions that make threads.
Makers == {"thread_create", "create_interrupt", "make"}

\* What those of lwcond_wait_timeout are.
LEMMA WaitsAre ==
  ASSUME test = "lwcond_wait_timeout"
  PROVE  /\ Len(Program(0)) = 6
         /\ \A n \in 1..6 : LET c == Program(0)[n] IN
              /\ c.op = "increment" <=> n \in {1, 3}
              /\ c.op = "thread_create" <=> n \in {2, 4}
              /\ c.op \in Jumps <=> n = 5
              /\ c.op \notin {"return", "exit", "store", "decrement", "create_interrupt", "make"}
         /\ Program(0)[2].arg = 1 /\ Program(0)[4].arg = 2 /\ Program(0)[5].arg = 5
         /\ \A t \in Threads \ {0} :
              /\ Len(Program(t)) = 7
              /\ \A n \in 1..7 : LET c == Program(t)[n] IN
                   /\ c.op = "decrement" <=> n = 6
                   /\ c.op = "exit" <=> n = 7
                   /\ c.op \in Jumps <=> n = 3
                   /\ c.op \notin Makers \cup {"increment", "store", "return"}
              /\ Program(t)[3].arg = 5
  <1>1. /\ Program(0) = lwcond_wait_timeout.main
        /\ \A t \in Threads \ {0} : Program(t) = lwcond_wait_timeout.thread
    BY DEF Program, Programs
  <1> QED BY <1>1 DEF Makers, lwcond_wait_timeout, threadWait, test_lock, While, If, Finished,
    Exit, I, On, Jumps

\* Only a creation, and its own end, make something of a thread.
LEMMA ThreadIs ==
  ASSUME Typed, NEW t \in Threads, Runs(t), NEW c, c = Instruction(t),
         c.op \notin Makers
  PROVE  \A u \in Threads : thread'[u] = IF c.op = "exit" /\ u = t THEN "ended" ELSE thread[u]
  <1>1. CASE Call(t)
    BY <1>1, CallIs DEF Call, Control, Makers
  <1>2. CASE ExitThread(t)
    BY <1>2 DEF ExitThread, Fetch, sys_ppu_thread_exit, Typed, Lv2Typed, Threaded
  <1>3. CASE ~Call(t) /\ ~ExitThread(t)
    BY <1>3 DEF Runs, MakeObject, ReceiveEvent, Branch, PrintLine, WriteSignal, SaveResult, Fetch,
       sys_event_queue_receive, lv2, Makers
  <1> QED BY <1>1, <1>2, <1>3

\* A thread of lwcond_wait_timeout is counted before it is created and off at its end.
LEMMA CountedKept ==
  ASSUME Typed, Positions, Counted, NEW t \in Threads, Runs(t)
  PROVE  Counted'
  <1> DEFINE c == Instruction(t)
  <1>1. /\ thread[t] = "runs" /\ test' = test /\ GoesOn(t, c)
        /\ \A u \in Threads \ {t} : pos'[u] = pos[u]
        /\ c.op = "increment" => signal' = signal + 1
        /\ c.op = "decrement" => signal' = signal - 1
        /\ c.op \notin {"store", "increment", "decrement"} => signal' = signal
    BY RunIs
  <1>2. c = Program(t)[pos[t]] /\ pos[t] \in 1..Len(Program(t))
    BY PositionsKept
  <1>3. \A u \in Threads : pos[u] \in Nat /\ (thread[u] = "none" => pos[u] = 1)
    BY DEF Typed, Begun
  <1> SUFFICES ASSUME test = "lwcond_wait_timeout" PROVE Counted'
    BY <1>1 DEF Counted
  <1>4. /\ thread[3] = "none" /\ thread[4] = "none"
        /\ thread[1] # "none" => pos[0] > 2
        /\ thread[2] # "none" => pos[0] > 4
        /\ signal \in 0..2
        /\ signal + Less(1) + Less(2) = IF pos[0] > 3 THEN 2 ELSE IF pos[0] > 1 THEN 1 ELSE 0
    BY DEF Counted
  <1>5. CASE t = 0
    <2>1. pos[0] \in 1..6 /\ c = Program(0)[pos[0]]
      BY <1>2, <1>5, WaitsAre
    <2>2. /\ c.op = "increment" <=> pos[0] \in {1, 3}
          /\ c.op = "thread_create" <=> pos[0] \in {2, 4}
          /\ c.op \in Jumps <=> pos[0] = 5
          /\ c.op \notin {"return", "exit", "store", "decrement", "create_interrupt", "make"}
          /\ pos[0] = 2 => c.arg = 1
          /\ pos[0] = 4 => c.arg = 2
          /\ pos[0] = 5 => c.arg = 5
      <3> HIDE DEF c
      <3> QED BY <2>1, WaitsAre
    <2>3. /\ pos[0] # 5 => pos'[0] = pos[0] + 1
          /\ pos[0] = 5 => pos'[0] \in 5..6
      BY <1>1, <1>5, <2>1, <2>2 DEF GoesOn
    <2>4. \A u \in Threads : thread'[u] = IF \/ u = 1 /\ pos[0] = 2
                                             \/ u = 2 /\ pos[0] = 4 THEN "runs" ELSE thread[u]
      <3>1. CASE pos[0] \in {2, 4}
        BY <1>5, <2>2, <3>1, CreateMakes DEF Typed, Lv2Typed, Threaded
      <3>2. CASE pos[0] \notin {2, 4}
        BY <1>5, <2>2, <3>2, ThreadIs DEF Makers
      <3> QED BY <3>1, <3>2
    <2>5. Less(1)' = Less(1) /\ Less(2)' = Less(2) /\ Less(1) \in 0..1 /\ Less(2) \in 0..1
      BY <1>1, <1>5 DEF Less
    <2>6. signal' = IF pos[0] \in {1, 3} THEN signal + 1 ELSE signal
      BY <1>1, <2>2
    <2> HIDE DEF c
    <2>7. thread'[3] = "none" /\ thread'[4] = "none"
      BY <1>4, <2>4 DEF Threads
    <2>8. /\ thread'[1] # "none" => pos'[0] > 2
          /\ thread'[2] # "none" => pos'[0] > 4
      BY <1>4, <2>1, <2>3, <2>4 DEF Threads
    <2>9. /\ signal' \in 0..2
          /\ signal' + Less(1)' + Less(2)'
               = IF pos'[0] > 3 THEN 2 ELSE IF pos'[0] > 1 THEN 1 ELSE 0
      BY <1>4, <2>1, <2>3, <2>5, <2>6
    <2> QED BY <2>7, <2>8, <2>9 DEF Counted
  <1>6. CASE t # 0
    <2>1. pos[t] \in 1..7 /\ t \in 1..2
      <3>1. Len(Program(t)) = 7
        BY <1>6, WaitsAre
      <3> QED BY <1>1, <1>2, <1>4, <1>6, <3>1
    <2>2. /\ c.op = "decrement" <=> pos[t] = 6
          /\ c.op = "exit" <=> pos[t] = 7
          /\ c.op \in Jumps <=> pos[t] = 3
          /\ c.op \notin Makers \cup {"increment", "store", "return"}
          /\ pos[t] = 3 => c.arg = 5
      <3>1. \A n \in 1..7 : LET i == Program(t)[n] IN
              /\ i.op = "decrement" <=> n = 6
              /\ i.op = "exit" <=> n = 7
              /\ i.op \in Jumps <=> n = 3
              /\ i.op \notin Makers \cup {"increment", "store", "return"}
        BY <1>6, WaitsAre
      <3>2. Program(t)[3].arg = 5
        BY <1>6, WaitsAre
      <3> HIDE DEF c
      <3> QED BY <1>2, <2>1, <3>1, <3>2
    <2>3. /\ pos[t] < 6 => pos'[t] <= 6
          /\ pos[t] >= 6 => pos'[t] = 7
      BY <1>1, <2>1, <2>2 DEF GoesOn
    <2>4. \A u \in Threads : thread'[u] = IF c.op = "exit" /\ u = t THEN "ended" ELSE thread[u]
      BY <2>2, ThreadIs
    <2>5. signal' = IF pos[t] = 6 THEN signal - 1 ELSE signal
      BY <1>1, <2>2
    <2>6. /\ Less(t)' = IF pos[t] >= 6 THEN 1 ELSE 0
          /\ \A u \in {1, 2} \ {t} : Less(u)' = Less(u)
          /\ \A u \in {1, 2} : Less(u) = IF pos[u] > 6 THEN 1 ELSE 0
      <3>1. pos'[t] \in Nat
        BY PositionsKept
      <3> QED BY <1>1, <2>1, <2>3, <3>1 DEF Less
    <2>7. pos'[0] = pos[0] /\ thread[t] = "runs" /\ thread'[3] = "none" /\ thread'[4] = "none"
      BY <1>1, <1>4, <1>6, <2>1, <2>4
    <2>8. \A u \in 1..2 : thread'[u] # "none" => thread[u] # "none"
      BY <1>1, <2>4
    <2>9. /\ signal' \in 0..2
          /\ signal' + Less(1)' + Less(2)' = signal + Less(1) + Less(2)
      <3>1. CASE t = 1
        BY <1>3, <1>4, <2>1, <2>5, <2>6, <2>7, <3>1
      <3>2. CASE t = 2
        BY <1>3, <1>4, <2>1, <2>5, <2>6, <2>7, <3>2
      <3> QED BY <2>1, <3>1, <3>2
    <2> HIDE DEF c
    <2> QED BY <1>4, <2>7, <2>8, <2>9 DEF Counted
  <1> QED BY <1>5, <1>6

\* What the program of threads_amount is.
LEMMA AmountIs ==
  ASSUME test = "threads_amount"
  PROVE  /\ Len(Program(0)) = 9
         /\ \A n \in 1..9 : LET c == Program(0)[n] IN
              /\ c.op = "create_interrupt" <=> n = 1
              /\ c.op = "increment" <=> n = 3
              /\ c.op = "if" <=> n \in {2, 5}
              /\ c.op = "goto" <=> n = 4
              /\ c.op = "return" <=> n \in {7, 9}
              /\ c.op \notin {"receive", "exit", "store", "decrement", "thread_create", "make"}
         /\ Program(0)[2].condition = "ok" /\ Program(0)[2].arg = 5
         /\ Program(0)[4].arg = 1 /\ Program(0)[5].arg = 8
BY DEF Program, Programs, threads_amount, Alone, If, Goto, I, On

\* The threads that there are not are the last ones, and the next is made.
LEMMA InterruptIs ==
  ASSUME Typed, NEW r, CreateInterruptThread(r), NEW k \in 0..4, thread[0] = "runs",
         \A t \in Threads \ {0} : thread[t] = IF t <= k THEN "interrupt" ELSE "none"
  PROVE  /\ k = 4 => r # "OK" /\ thread' = thread
         /\ k < 4 => r = "OK" /\ thread' = [thread EXCEPT ![k + 1] = "interrupt"]
  <1> DEFINE none == {t \in Threads : thread[t] = "none"}
  <1>1. none = (k + 1)..4
    OBVIOUS
  <1>2. CASE k = 4
    BY <1>1, <1>2 DEF CreateInterruptThread, lv2
  <1>3. CASE k < 4
    <2>1. Fewest(none) = k + 1
      BY <1>1, <1>3 DEF Fewest
    <2>2. none # {}
      BY <1>1, <1>3
    <2> QED BY <1>3, <2>1, <2>2 DEF CreateInterruptThread, sys_ppu_thread_create_interrupt
  <1> QED BY <1>2, <1>3

\* What the call of a thread returns.
LEMMA CreateInterrupts ==
  ASSUME Typed, NEW t \in Threads, Runs(t), Instruction(t).op = "create_interrupt"
  PROVE  \E r \in Results : CreateInterruptThread(r) /\ ret'[t] = r
  <1>1. Call(t)
    BY DEF Runs, MakeObject, ReceiveEvent, Branch, PrintLine, WriteSignal, SaveResult, ExitThread,
           Fetch
  <1> QED BY <1>1, CallIs DEF Call, Typed

\* Main counts an interrupt thread after it has got it.
LEMMA AmountKept ==
  ASSUME Typed, Positions, Amount, NEW t \in Threads, Runs(t)
  PROVE  Amount'
  <1> DEFINE c == Instruction(t)
  <1>1. /\ thread[t] = "runs" /\ test' = test /\ GoesOn(t, c)
        /\ c.op = "increment" => signal' = signal + 1
        /\ c.op \notin {"store", "increment", "decrement"} => signal' = signal
    BY RunIs
  <1> SUFFICES ASSUME test = "threads_amount" PROVE Amount'
    BY <1>1 DEF Amount
  <1>2. PICK k \in 0..4 :
          /\ thread[0] = "runs"
          /\ \A u \in Threads \ {0} : thread[u] = IF u <= k THEN "interrupt" ELSE "none"
          /\ signal \in 0..4
          /\ signal = IF pos[0] = 3 \/ (pos[0] = 2 /\ ret[0] = "OK") THEN k - 1 ELSE k
    BY DEF Amount
  <1>3. t = 0
    BY <1>1, <1>2
  <1>4. pos[0] \in 1..9 /\ c = Program(0)[pos[0]]
    BY <1>3, PositionsKept, AmountIs
  <1>5. /\ c.op = "create_interrupt" <=> pos[0] = 1
        /\ c.op = "increment" <=> pos[0] = 3
        /\ c.op = "if" <=> pos[0] \in {2, 5}
        /\ c.op = "goto" <=> pos[0] = 4
        /\ c.op = "return" <=> pos[0] \in {7, 9}
        /\ c.op \notin {"receive", "exit", "store", "decrement", "thread_create", "make"}
        /\ pos[0] = 2 => c.condition = "ok" /\ c.arg = 5
        /\ pos[0] = 4 => c.arg = 1
        /\ pos[0] = 5 => c.arg = 8
    <2> HIDE DEF c
    <2> QED BY <1>4, AmountIs
  <1>6. pos[0] = 2 => pos'[0] = IF ret[0] = "OK" THEN 3 ELSE 5
    <2> HAVE pos[0] = 2
    <2>1. c.op = "if" /\ c.condition = "ok" /\ c.arg = 5
      BY <1>5
    <2>2. Holds(0, "ok") <=> ret[0] = "OK"
      BY DEF Holds
    <2> QED BY <1>3, <2>1, <2>2, IfIs
  <1>7. /\ pos[0] \in {1, 3, 6, 8} => pos'[0] = pos[0] + 1
        /\ pos[0] = 4 => pos'[0] = 1
        /\ pos[0] \in {5, 7, 9} => pos'[0] > 5
    <2>1. CASE pos[0] \in {1, 3, 6, 8}
      BY <1>1, <1>3, <1>5, <2>1 DEF GoesOn, Jumps
    <2>2. CASE pos[0] = 4
      BY <1>1, <1>3, <1>5, <2>2, AmountIs DEF GoesOn, Jumps
    <2>3. CASE pos[0] = 5
      BY <1>1, <1>3, <1>5, <2>3 DEF GoesOn, Jumps
    <2>4. CASE pos[0] \in {7, 9}
      BY <1>1, <1>3, <1>4, <1>5, <2>4, AmountIs DEF GoesOn, Jumps
    <2> QED BY <1>4, <2>1, <2>2, <2>3, <2>4
  <1>8. pos[0] # 1 => thread' = thread
    <2> HAVE pos[0] # 1
    <2>1. \A u \in Threads : thread'[u] = thread[u]
      BY <1>5, ThreadIs DEF Makers
    <2> QED BY <2>1, ThreadsRemain DEF ThreadsStep, Typed, Lv2Typed, Threaded
  <1> HIDE DEF c
  <1>9. CASE pos[0] = 1
    <2>1. PICK r \in Results : CreateInterruptThread(r) /\ ret'[0] = r
      BY <1>3, <1>5, <1>9, CreateInterrupts DEF c
    <2>2. pos'[0] = 2 /\ signal' = signal /\ signal = k
      BY <1>1, <1>2, <1>5, <1>7, <1>9
    <2>3. CASE k = 4
      BY <1>1, <1>2, <2>1, <2>2, <2>3, InterruptIs DEF Amount
    <2>4. CASE k < 4
      <3>1. r = "OK" /\ thread' = [thread EXCEPT ![k + 1] = "interrupt"]
        BY <1>2, <2>1, <2>4, InterruptIs
      <3>2. /\ thread'[0] = "runs"
            /\ \A u \in Threads \ {0} : thread'[u] = IF u <= k + 1 THEN "interrupt" ELSE "none"
        BY <1>2, <2>4, <3>1 DEF Typed, Lv2Typed, Threaded
      <3> QED BY <1>1, <1>2, <2>1, <2>2, <2>4, <3>1, <3>2 DEF Amount
    <2> QED BY <2>3, <2>4
  <1>10. CASE pos[0] = 3
    BY <1>1, <1>2, <1>5, <1>7, <1>8, <1>10 DEF Amount
  <1>11. CASE pos[0] = 2
    <2>1. signal' = signal
      BY <1>1, <1>5, <1>11
    <2> QED BY <1>1, <1>2, <1>6, <1>8, <1>11, <2>1 DEF Amount
  <1>12. CASE pos[0] \in 4..9
    <2>1. signal' = signal /\ signal = k
      BY <1>1, <1>2, <1>5, <1>12
    <2>2. pos'[0] \notin {2, 3}
      BY <1>4, <1>7, <1>12
    <2> QED BY <1>1, <1>2, <1>8, <1>12, <2>1, <2>2 DEF Amount
  <1> QED BY <1>4, <1>9, <1>10, <1>11, <1>12

\* The devices and the audio disturb none of it.
LEMMA BesideKeepsAll == ASSUME KInv, Device \/ Mix \/ UNCHANGED vars PROVE KInv'
  <1>1. /\ thread' = thread /\ pos' = pos /\ test' = test /\ signal' = signal /\ ret' = ret
    BY DEF Device, Mix, Expire, VBlank, Send, vars, lv2
  <1>2. Typed'
    <2>1. CASE Device \/ Mix
      BY <2>1, BesideKeeps DEF KInv
    <2>2. CASE UNCHANGED vars
      BY <2>2 DEF KInv, vars, lv2, Typed, Lv2Typed, Timed, Queued, Marked, Threaded, Switched, Begun
    <2> QED BY <2>1, <2>2
  <1>3. \A t \in Threads : Program(t)' = Program(t)
    BY <1>1 DEF Program
  <1>4. Positions' /\ Made' /\ MainThere'
    BY <1>1, <1>3 DEF KInv, Positions, Made, MainThere
  <1>5. Told' /\ Signalled' /\ Counted' /\ Amount'
    BY <1>1 DEF KInv, Told, Signalled, Counted, Less, Amount
  <1> QED BY <1>2, <1>4, <1>5 DEF KInv

\* Every step keeps the invariant.
LEMMA NextKeeps == KInv /\ [Next]_vars => KInv'
  <1> SUFFICES ASSUME KInv, [Next]_vars PROVE KInv'
    OBVIOUS
  <1>1. ASSUME NEW t \in Threads, Runs(t) PROVE KInv'
    <2>1. Typed'
      BY <1>1, PositionsKept, RunIs, RunsKeeps DEF KInv
    <2>2. Positions' /\ Made' /\ Told' /\ Signalled' /\ Counted' /\ Amount'
      BY <1>1, PositionsKept, MadeKept, ToldKept, SignalledKept, CountedKept, AmountKept DEF KInv
    <2>3. MainThere'
      BY <1>1, ThreadsRemain DEF KInv, MainThere
    <2> QED BY <2>1, <2>2, <2>3 DEF KInv
  <1> QED BY <1>1, BesideKeepsAll DEF Next

\* It holds at the start.
LEMMA InitIs == Init => KInv
  <1> SUFFICES ASSUME Init PROVE KInv
    OBVIOUS
  <1>1. test \in Tests
    BY DEF Init
  <1>2. 0 \in 0..(Generations - 1) /\ 0 \in 0..MaxExpiries /\ QueueDepth \in Nat
    BY KernelTestsAssumption DEF KernelTestsAssumption
  <1>3. Typed
    <2>1. Timed /\ Queued
      BY <1>2 DEF Init, NoObjects, NoTimer, Timed, Queued
    <2>2. Marked /\ Threaded /\ Switched /\ Begun
      BY DEF Init, NoObjects, Marked, Threaded, Switched, Begun
    <2>3. array \in [Kinds -> [0..(Objects - 1) -> Id]]
      BY <1>2 DEF Init, NoId, Id
    <2>4. ret \in [Threads -> Results] /\ saved \in Results /\ failed \in BOOLEAN
      BY DEF Init, Results
    <2> QED BY <1>1, <2>1, <2>2, <2>3, <2>4 DEF Typed, Lv2Typed
  <1>4. /\ MainOk(Program(0)) /\ \A t \in Threads \ {0} : ThreadOk(Program(t))
    BY <1>1, RunningOk
  <1>5. Positions
    BY <1>4 DEF Init, Positions, MainOk, ThreadOk
  <1>6. Made /\ MainThere /\ Told /\ Signalled
    BY DEF Init, NoObjects, Made, MainThere, Told, Signalled
  <1>7. Counted /\ Amount
    BY DEF Init, NoObjects, Counted, Less, Amount
  <1> QED BY <1>3, <1>5, <1>6, <1>7 DEF KInv

\* The invariant holds in every state.
LEMMA KInvHolds == Spec => []KInv
BY InitIs, NextKeeps, PTL DEF Spec
-----------------------------------------------------------------------------
(* What follows.                                                           *)

\* Every variable keeps its type: no thread leaves its program, the queue does not hold
\* more than fits, and what main and the threads count stays in its range.
THEOREM TypeCorrectness == Spec => []TypeOK
  <1>1. KInv => TypeOK
    <2> SUFFICES ASSUME KInv PROVE TypeOK
      OBVIOUS
    <2>1. \A t \in Threads : pos[t] \in 1..(Len(Program(t)) + 1)
      <3>1. \A t \in Threads : Len(Program(t)) \in Nat
        BY RunningOk DEF KInv, Typed, MainOk, ThreadOk
      <3> QED BY <3>1 DEF KInv, Positions
    <2>2. signal \in 0..(IF test = "threads_amount" THEN 4 ELSE 2)
      BY DEF KInv, Signalled, Counted, Amount, Counting
    <2>3. \A k \in Kinds : \A i \in DOMAIN array[k] :
            array[k][i] \in [slot : Slots \cup {0}, generation : 0..(Generations - 1)]
      BY DEF KInv, Typed, Id
    <2> QED BY <2>1, <2>2, <2>3 DEF KInv, Typed, Lv2Typed, Timed, Queued, Marked, Threaded,
      Switched, TypeOK
  <1> QED BY <1>1, KInvHolds, PTL

\* A thread is joined, and has its priority set, only by an identifier that main has
\* written to tid.
THEOREM JoinsCreatedThreads == Spec => []NamesCreatedThreads
  <1>1. KInv => NamesCreatedThreads
    <2> SUFFICES ASSUME KInv, NEW t \in Threads
                 PROVE  /\ Fetch(t, "join") => thread[Arg(t)] # "none"
                        /\ Fetch(t, "set_priority") => thread[Other(t)] # "none"
      BY DEF NamesCreatedThreads
    <2>1. /\ MainOk(Program(0)) /\ \A u \in Threads \ {0} : ThreadOk(Program(u))
      BY RunningOk DEF KInv, Typed
    <2>2. ASSUME CanRun(t)
          PROVE  pos[t] \in 1..Len(Program(t)) /\ Instruction(t) = Program(t)[pos[t]]
      BY <2>1, <2>2 DEF KInv, Positions, CanRun, Returned, Instruction, MainOk
    <2>3. Fetch(t, "join") => thread[Arg(t)] # "none"
      <3> SUFFICES ASSUME Fetch(t, "join") PROVE thread[Arg(t)] # "none"
        OBVIOUS
      <3>1. /\ pos[t] \in 1..Len(Program(t)) /\ Program(t)[pos[t]].op = "join"
            /\ Arg(t) = Program(t)[pos[t]].arg
        BY <2>2 DEF Fetch, Arg
      <3>2. CASE t # 0
        BY <2>1, <3>1, <3>2 DEF ThreadOk, KInv, MainThere
      <3>3. CASE t = 0
        <4>1. PICK m \in 1..(pos[0] - 1) : /\ Program(0)[m].op = "thread_create"
                                           /\ Program(0)[m].arg = Arg(0)
          BY <2>1, <3>1, <3>3 DEF MainOk, Joins
        <4>2. ~LastOf(Program(0), pos[0])
          BY <3>1, <3>3 DEF LastOf
        <4> QED BY <3>3, <4>1, <4>2 DEF KInv, Made
      <3> QED BY <3>2, <3>3
    <2>4. Fetch(t, "set_priority") => thread[Other(t)] # "none"
      <3> SUFFICES ASSUME Fetch(t, "set_priority") PROVE thread[Other(t)] # "none"
        OBVIOUS
      <3>1. /\ pos[t] \in 1..Len(Program(t)) /\ Program(t)[pos[t]].op = "set_priority"
            /\ ~Returned
        BY <2>2 DEF Fetch, CanRun
      <3>2. t # 0
        BY <2>1, <3>1 DEF MainOk
      <3>3. test = "set_priority"
        BY <3>1, <3>2, RunningOk DEF SetsNot, KInv, Typed
      <3>4. pos[t] \in 2..7 /\ Arg(t) \in 1..3
        <4>1. /\ Len(Program(t)) = 7 /\ Program(t)[1].op = "if"
              /\ \A n \in 1..7 : Program(t)[n].op = "set_priority" => Program(t)[n].arg \in 1..3
          BY <3>2, <3>3, PrioritiesAre
        <4>2. Arg(t) = Program(t)[pos[t]].arg
          BY <2>2 DEF Fetch, Arg
        <4> QED BY <3>1, <4>1, <4>2
      <3>5. pos[0] > 5 /\ pos[0] \in Nat
        BY <3>2, <3>3, <3>4 DEF KInv, Told, Typed, Begun
      <3>6. Other(t) \in 1..4
        BY <3>4 DEF Other
      <3> QED BY <3>3, <3>5, <3>6 DEF KInv, Told
    <2> QED BY <2>3, <2>4
  <1> QED BY <1>1, KInvHolds, PTL
-----------------------------------------------------------------------------
(* Instructions, one by one.                                               *)

HIDE DEF Threads

\* A thread moves to n, and the others stay.
Moves(t, n) == pos'[t] = n /\ \A u \in Threads \ {t} : pos'[u] = pos[u]

\* What a call comes to beside the kernel.
Does(t, c, r) ==
  /\ Moves(t, pos[t] + 1)
  /\ ret'[t] = r /\ \A u \in Threads \ {t} : ret'[u] = ret[u]
  /\ console' = IF c.mode = "print" THEN Append(console, r) ELSE console
  /\ failed' <=> c.mode \notin {"ignore", "print", r}
  /\ UNCHANGED <<test, saved, signal, array>>

\* What there is of a thread's step when it is no call.
Plainly(t) == UNCHANGED <<services, test, array, failed>>

\* The calls of the kernel, of the services, and all there are.
KernelOps == {"thread_create", "join", "set_priority", "queue_create", "queue_receive",
              "timer_create", "timer_destroy", "timer_connect", "timer_disconnect", "timer_start",
              "timer_information", "lock", "trylock", "unlock", "117", "lwcond_wait", "bind",
              "unbind", "spu_receive", "iomap", "unmap"}
ServiceOps == {"set_notify", "remove_notify", "gem_start", "gem_finish", "memory_allocate",
               "context_allocate", "device_map", "iounmap"}
CallOps == KernelOps \cup ServiceOps \cup {"create_interrupt", "queue_destroy", "end", "memory"}

\* A thread at a call of the kernel or of a service makes it.
LEMMA CallMakes ==
  ASSUME Typed, NEW t \in Threads, Runs(t), NEW c, c = Instruction(t), c.op \in CallOps
  PROVE  \E r \in Results :
           /\ Does(t, c, r)
           /\ c.op \in KernelOps => KernelCalls(t, c, r) /\ UNCHANGED services
           /\ c.op \in ServiceOps => ServiceCalls(c, r) /\ UNCHANGED lv2
           /\ c.op = "create_interrupt" => CreateInterruptThread(r) /\ UNCHANGED services
           /\ c.op = "queue_destroy" => sys_event_queue_destroy(r) /\ Notified("none")
           /\ c.op = "memory" => r = "OK" /\ UNCHANGED <<lv2, services>>
           /\ c.op = "end" => /\ EndObject(c.arg.kind, array[c.arg.kind][c.arg.i], r)
                              /\ IF c.arg.kind = "thread"
                                 THEN sys_ppu_thread_join(ThreadOf(c.arg.i), "EFAULT") ELSE UNCHANGED lv2
  <1>1. Call(t)
    BY DEF Runs, CallOps, KernelOps, ServiceOps, MakeObject, ReceiveEvent, Branch, PrintLine,
           WriteSignal, SaveResult, ExitThread, Fetch
  <1>2. PICK r \in Results :
          /\ Calls(t, c, r) /\ ret' = [ret EXCEPT ![t] = r]
          /\ console' = IF c.mode = "print" THEN Append(console, r) ELSE console
          /\ failed' = (c.mode \notin {"ignore", "print", r})
          /\ pos' = [pos EXCEPT ![t] = pos[t] + 1]
          /\ UNCHANGED <<test, saved, signal, array>>
    BY <1>1 DEF Call, Next_, Goes
  <1>3. Does(t, c, r)
    BY <1>2 DEF Does, Moves, Typed, Begun
  <1>4. KernelCalls(t, c, r) => c.op \in KernelOps
    BY DEF KernelCalls, KernelOps
  <1>5. ServiceCalls(c, r) => c.op \in ServiceOps
    BY DEF ServiceCalls, ServiceOps
  <1> QED BY <1>2, <1>3, <1>4, <1>5 DEF Calls, KernelOps, ServiceOps

\* A thread at an instruction that is no call.
LEMMA OtherIs ==
  ASSUME NEW t \in Threads, Runs(t), NEW c, c = Instruction(t)
  PROVE  /\ c.op = "make" => MakeObject(t)
         /\ c.op = "receive" => ReceiveEvent(t)
         /\ c.op \in {"if", "goto", "return"} => Branch(t)
         /\ c.op \in {"print", "print_ret", "print_saved", "print_signal", "print_ref",
                      "print_event"}
              => PrintLine(t)
         /\ c.op \in {"store", "increment", "decrement"} => WriteSignal(t)
         /\ c.op = "save" => SaveResult(t)
         /\ c.op = "exit" => ExitThread(t)
  <1>1. Call(t) => c.op \in CallOps
    BY DEF Call, Calls, KernelCalls, ServiceCalls, CallOps, KernelOps, ServiceOps
  <1> QED BY <1>1 DEF Runs, CallOps, KernelOps, ServiceOps, MakeObject, ReceiveEvent, Branch,
     PrintLine, WriteSignal, SaveResult, ExitThread, Fetch

\* A thread that there is not is created.
LEMMA Creates ==
  ASSUME Typed, NEW t \in Threads, Runs(t), NEW c, c = Instruction(t), c.op = "thread_create",
         c.arg \in Threads
  PROVE  /\ Does(t, c, "OK")
         /\ thread'[c.arg] = "runs" /\ \A u \in Threads \ {c.arg} : thread'[u] = thread[u]
         /\ UNCHANGED <<queue, events, timer, marks, bound, mapped, services>>
BY CallMakes DEF CallOps, KernelOps, KernelCalls, sys_ppu_thread_create, OthersUnchanged, Typed,
   Lv2Typed, Threaded

\* A thread that is joined has ended; main is not to be joined.
LEMMA JoinsEnded ==
  ASSUME Typed, NEW t \in Threads, Runs(t), NEW c, c = Instruction(t), c.op = "join"
  PROVE  /\ \/ c.arg = 0 /\ Does(t, c, "EINVAL")
            \/ thread[c.arg] = "ended" /\ Does(t, c, "EFAULT")
         /\ UNCHANGED <<lv2, services>>
BY CallMakes DEF CallOps, KernelOps, KernelCalls, sys_ppu_thread_join, OthersUnchanged, lv2

\* A priority is set, or not.
LEMMA Sets ==
  ASSUME Typed, NEW t \in Threads, Runs(t), NEW c, c = Instruction(t), c.op = "set_priority"
  PROVE  (\E r \in Results : Does(t, c, r)) /\ UNCHANGED <<lv2, services>>
BY CallMakes DEF CallOps, KernelOps, KernelCalls, sys_ppu_thread_set_priority, OthersUnchanged,
   lv2

\* A queue is created, empty.
LEMMA QueueCreates ==
  ASSUME Typed, NEW t \in Threads, Runs(t), NEW c, c = Instruction(t), c.op = "queue_create"
  PROVE  /\ Does(t, c, "OK") /\ queue # "open" /\ queue' = "open" /\ events' = <<>>
         /\ UNCHANGED <<thread, timer, marks, bound, mapped, services>>
BY CallMakes DEF CallOps, KernelOps, KernelCalls, sys_event_queue_create

\* The queue is destroyed, and no longer told of the audio.
LEMMA QueueDestroys ==
  ASSUME Typed, NEW t \in Threads, Runs(t), NEW c, c = Instruction(t), c.op = "queue_destroy"
  PROVE  /\ Does(t, c, IF queue = "open" THEN "OK" ELSE "ESRCH")
         /\ queue' = (IF queue = "open" THEN "destroyed" ELSE queue)
         /\ events' = <<>> /\ notified' = "none"
         /\ UNCHANGED <<thread, timer, marks, bound, mapped, updating, driver, ids>>
BY CallMakes DEF CallOps, KernelOps, ServiceOps, sys_event_queue_destroy, Notified

\* An event is waited for.
LEMMA Awaits ==
  ASSUME Typed, NEW t \in Threads, Runs(t), NEW c, c = Instruction(t), c.op = "queue_receive"
  PROVE  /\ \E r \in Results : Does(t, c, r) /\ sys_event_queue_receive(c.arg, r)
         /\ UNCHANGED <<thread, queue, timer, marks, bound, mapped, services>>
BY CallMakes DEF CallOps, KernelOps, KernelCalls, sys_event_queue_receive

\* A timer is created, stopped.
LEMMA TimerCreates ==
  ASSUME Typed, NEW t \in Threads, Runs(t), NEW c, c = Instruction(t), c.op = "timer_create"
  PROVE  /\ Does(t, c, "OK") /\ timer'.state = "stop" /\ ~timer'.connected
         /\ UNCHANGED <<thread, queue, events, marks, bound, mapped, services>>
BY CallMakes DEF CallOps, KernelOps, KernelCalls, sys_timer_create, Timer, NoTimer

\* It can be connected once.
LEMMA TimerConnects ==
  ASSUME Typed, NEW t \in Threads, Runs(t), NEW c, c = Instruction(t), c.op = "timer_connect"
  PROVE  /\ Does(t, c, IF timer.connected THEN "EISCONN" ELSE "OK")
         /\ timer'.state = timer.state /\ timer'.period = timer.period /\ timer'.connected
         /\ UNCHANGED <<thread, queue, events, marks, bound, mapped, services>>
BY CallMakes DEF CallOps, KernelOps, KernelCalls, sys_timer_connect_event_queue, Timer, Typed,
   Lv2Typed, Timed

\* It stops when it is disconnected, though there is no queue.
LEMMA TimerDisconnects ==
  ASSUME Typed, NEW t \in Threads, Runs(t), NEW c, c = Instruction(t), c.op = "timer_disconnect"
  PROVE  /\ Does(t, c, IF timer.connected /\ queue = "open" THEN "OK" ELSE "ENOTCONN")
         /\ timer'.state = "stop" /\ ~timer'.connected
         /\ UNCHANGED <<thread, queue, events, marks, bound, mapped, services>>
  <1>1. PICK r \in Results :
          /\ Does(t, c, r) /\ sys_timer_disconnect_event_queue(r) /\ UNCHANGED services
    BY CallMakes DEF CallOps, KernelOps, KernelCalls
  <1> QED BY <1>1 DEF sys_timer_disconnect_event_queue, Timer, Typed, Lv2Typed, Timed

\* It is started when it does not run.
LEMMA TimerStarts ==
  ASSUME Typed, NEW t \in Threads, Runs(t), NEW c, c = Instruction(t), c.op = "timer_start",
         timer.state # "run"
  PROVE  /\ Does(t, c, "OK")
         /\ timer'.state = "run" /\ timer'.period = c.arg /\ timer'.connected = timer.connected
         /\ UNCHANGED <<thread, queue, events, marks, bound, mapped, services>>
  <1>1. PICK r \in Results :
          /\ Does(t, c, r) /\ sys_timer_start(c.arg, r) /\ UNCHANGED services
    BY CallMakes DEF CallOps, KernelOps, KernelCalls
  <1> QED BY <1>1 DEF sys_timer_start, Timer, Typed, Lv2Typed, Timed

\* Its state is asked for.
LEMMA TimerInforms ==
  ASSUME Typed, NEW t \in Threads, Runs(t), NEW c, c = Instruction(t), c.op = "timer_information"
  PROVE  Does(t, c, timer.state) /\ UNCHANGED <<lv2, services>>
BY CallMakes DEF CallOps, KernelOps, KernelCalls, sys_timer_get_information, OthersUnchanged, lv2

\* What the calls of a mutex find and leave.
LEMMA MutexCalls ==
  ASSUME Typed, NEW t \in Threads, Runs(t), NEW c, c = Instruction(t), NEW m, m = Mutex(t),
         c.op \in {"lock", "trylock", "unlock", "117", "lwcond_wait"}, m \in Mutexes
  PROVE  /\ c.op = "lock" => /\ Does(t, c, IF "unlocked" \in marks[m] THEN "OK" ELSE "EBUSY")
                             /\ marks[m] # {} /\ marks'[m] = {}
         /\ c.op = "trylock" =>
              \/ Does(t, c, IF "unlocked" \in marks[m] THEN "OK" ELSE "EBUSY") /\ marks'[m] = {}
              \/ Does(t, c, "EBUSY") /\ "unlocked" \notin marks[m] /\ marks'[m] = marks[m]
         /\ c.op = "unlock" => Does(t, c, "OK") /\ marks'[m] = marks[m] \cup {"unlocked"}
         /\ c.op = "117" => Does(t, c, "OK") /\ marks'[m] = marks[m] \cup {"117"}
         /\ c.op = "lwcond_wait" =>
              Does(t, c, "ETIMEDOUT") /\ marks'[m] = marks[m] \cup {"unlocked"}
         /\ \A o \in Mutexes \ {m} : marks'[o] = marks[o]
         /\ UNCHANGED <<thread, queue, events, timer, bound, mapped, services>>
BY CallMakes DEF CallOps, KernelOps, KernelCalls, lv2_lwmutex_lock, lv2_lwmutex_trylock,
   lv2_lwmutex_unlock, lv2_lwmutex_117, lv2_lwcond_wait, Marks, LockResult, Typed, Lv2Typed,
   Marked

\* A queue is bound to a number that is free, and the number is freed.
LEMMA BindCalls ==
  ASSUME Typed, NEW t \in Threads, Runs(t), NEW c, c = Instruction(t), c.op \in {"bind", "unbind"}
  PROVE  /\ c.op = "bind" => Does(t, c, IF bound THEN "EBUSY" ELSE "OK") /\ bound'
         /\ c.op = "unbind" => Does(t, c, IF bound THEN "OK" ELSE "ESRCH") /\ ~bound'
         /\ UNCHANGED <<thread, queue, events, timer, marks, mapped, services>>
  <1>1. PICK r \in Results : Does(t, c, r) /\ KernelCalls(t, c, r) /\ UNCHANGED services
    BY CallMakes DEF CallOps, KernelOps
  <1>2. /\ c.op = "bind" => sys_spu_thread_bind_queue(r)
        /\ c.op = "unbind" => sys_spu_thread_unbind_queue(r)
    BY <1>1 DEF KernelCalls
  <1>3. CASE c.op = "bind"
    BY <1>1, <1>2, <1>3 DEF sys_spu_thread_bind_queue
  <1>4. CASE c.op = "unbind"
    BY <1>1, <1>2, <1>4 DEF sys_spu_thread_unbind_queue
  <1> QED BY <1>3, <1>4

\* The SPU thread receives from a queue that is not there.
LEMMA SpuReceives ==
  ASSUME Typed, NEW t \in Threads, Runs(t), NEW c, c = Instruction(t), c.op = "spu_receive"
  PROVE  Does(t, c, "EINVAL") /\ UNCHANGED <<lv2, services>>
BY CallMakes DEF CallOps, KernelOps, KernelCalls, sys_spu_thread_receive_event, OthersUnchanged,
   lv2

\* Memory is mapped, and unmapped with an event.
LEMMA IoCalls ==
  ASSUME Typed, NEW t \in Threads, Runs(t), NEW c, c = Instruction(t), c.op \in {"iomap", "unmap"}
  PROVE  /\ Does(t, c, "OK") /\ UNCHANGED <<thread, queue, timer, marks, bound, services>>
         /\ events' = events \/ (c.op = "unmap" /\ events' = Append(events, "unmapped"))
  <1>1. PICK r \in Results : Does(t, c, r) /\ KernelCalls(t, c, r) /\ UNCHANGED services
    BY CallMakes DEF CallOps, KernelOps
  <1>2. CASE c.op = "iomap"
    BY <1>1, <1>2 DEF KernelCalls, sys_rsx_context_iomap
  <1>3. CASE c.op = "unmap"
    <2>1. Unmap(r)
      BY <1>1, <1>3 DEF KernelCalls
    <2> QED BY <1>1, <1>3, <2>1 DEF Unmap, Send
  <1> QED BY <1>2, <1>3

\* The queue of the audio.
LEMMA NotifyCalls ==
  ASSUME Typed, NEW t \in Threads, Runs(t), NEW c, c = Instruction(t),
         c.op \in {"set_notify", "remove_notify"}
  PROVE  /\ c.op = "set_notify" =>
              /\ Does(t, c, IF notified = "none" THEN "OK" ELSE "TRANS_EVENT")
              /\ notified' = IF notified = "none" THEN c.arg ELSE notified
         /\ c.op = "remove_notify" =>
              /\ Does(t, c, IF notified = c.arg THEN "OK" ELSE "TRANS_EVENT")
              /\ notified' = IF notified = c.arg THEN "none" ELSE notified
         /\ UNCHANGED <<lv2, updating, driver, ids>>
BY CallMakes DEF CallOps, KernelOps, ServiceOps, ServiceCalls, cellAudioSetNotifyEventQueue,
   cellAudioRemoveNotifyEventQueue, Notified

\* The update of the camera.
LEMMA GemCalls ==
  ASSUME Typed, NEW t \in Threads, Runs(t), NEW c, c = Instruction(t),
         c.op \in {"gem_start", "gem_finish"}
  PROVE  /\ c.op = "gem_start" =>
              Does(t, c, IF updating THEN "UPDATE_NOT_FINISHED" ELSE "NO_VIDEO") /\ updating'
         /\ c.op = "gem_finish" => Does(t, c, "NO_VIDEO") /\ ~updating'
         /\ UNCHANGED <<lv2, notified, driver, ids>>
BY CallMakes DEF CallOps, KernelOps, ServiceOps, ServiceCalls, cellGemUpdateStart,
   cellGemUpdateFinish, Updating

\* What the driver has given: memory, the blocks of the device and of the context.
Given(memory, device, context, blocks) ==
  [memory |-> memory, device |-> device, context |-> context, blocks |-> blocks]

\* The calls of the driver, as the tests make them.
LEMMA DriverCalls ==
  ASSUME Typed, NEW t \in Threads, Runs(t), NEW c, c = Instruction(t),
         NEW memory, NEW device, NEW context, NEW blocks,
         driver = Given(memory, device, context, blocks)
  PROVE  /\ c.op = "memory_allocate" =>
              /\ Does(t, c, IF memory THEN "ENOMEM" ELSE "OK")
              /\ driver' = [memory |-> TRUE, device |-> device, context |-> context,
                             blocks |-> blocks]
              /\ UNCHANGED <<lv2, notified, updating, ids>>
         /\ c.op = "context_allocate" =>
              /\ Does(t, c, IF memory THEN Block(blocks) ELSE "EINVAL")
              /\ driver' = IF memory THEN [memory |-> memory, device |-> device, context |-> blocks,
                                           blocks |-> blocks + 3] ELSE driver
              /\ UNCHANGED <<lv2, notified, updating, ids>>
         /\ c.op = "device_map" =>
              /\ Does(t, c, Block(IF device = NoBlock THEN blocks ELSE device))
              /\ driver' = IF device = NoBlock THEN [memory |-> memory, device |-> blocks,
                                                     context |-> context, blocks |-> blocks + 1]
                                               ELSE driver
              /\ UNCHANGED <<lv2, notified, updating, ids>>
         /\ c.op = "iounmap" =>
              /\ Does(t, c, IF context = NoBlock THEN "EINVAL" ELSE "OK")
              /\ UNCHANGED <<lv2, services>>
  <1>1. ASSUME c.op \in {"memory_allocate", "context_allocate", "device_map", "iounmap"}
        PROVE  \E r \in Results : Does(t, c, r) /\ ServiceCalls(c, r) /\ UNCHANGED lv2
    BY <1>1, CallMakes DEF CallOps, ServiceOps, KernelOps
  <1>2. CASE c.op = "memory_allocate"
    BY <1>1, <1>2 DEF ServiceCalls, sys_rsx_memory_allocate, Driver, Given
  <1>3. CASE c.op = "context_allocate"
    BY <1>1, <1>3 DEF ServiceCalls, sys_rsx_context_allocate, Driver, Given
  <1>4. CASE c.op = "device_map"
    BY <1>1, <1>4 DEF ServiceCalls, sys_rsx_device_map, Driver, Given
  <1>5. CASE c.op = "iounmap"
    BY <1>1, <1>5 DEF ServiceCalls, sys_rsx_context_iounmap, Driver, Given, services
  <1> QED BY <1>2, <1>3, <1>4, <1>5

\* The driver's calls concern nothing else.
LEMMA DriverAside ==
  ASSUME Typed, NEW t \in Threads, Runs(t), NEW c, c = Instruction(t),
         c.op \in {"memory_allocate", "context_allocate", "device_map"}
  PROVE  UNCHANGED <<lv2, notified>>
BY CallMakes DEF CallOps, KernelOps, ServiceOps, ServiceCalls, sys_rsx_memory_allocate,
   sys_rsx_context_allocate, sys_rsx_device_map, Driver, services

\* There is memory.
LEMMA MemoryCalls ==
  ASSUME Typed, NEW t \in Threads, Runs(t), NEW c, c = Instruction(t), c.op = "memory"
  PROVE  Does(t, c, "OK") /\ UNCHANGED <<lv2, services>>
BY CallMakes DEF CallOps, KernelOps, ServiceOps

\* A branch.
LEMMA Branches ==
  ASSUME Typed, NEW t \in Threads, Runs(t), NEW c, c = Instruction(t),
         c.op \in {"if", "goto", "return"}
  PROVE  /\ c.op = "if" => Moves(t, IF Holds(t, c.condition) THEN pos[t] + 1 ELSE c.arg)
         /\ c.op = "goto" => Moves(t, c.arg)
         /\ c.op = "return" => Moves(t, Len(Program(t)) + 1)
         /\ UNCHANGED <<lv2, services, test, ret, saved, signal, array, failed, console>>
BY OtherIs DEF Branch, Fetch, Next_, Goes, Arg, Moves, Typed, Begun

\* A line that is printed.
LEMMA Lines ==
  ASSUME Typed, NEW t \in Threads, Runs(t), NEW c, c = Instruction(t),
         c.op \in {"print", "print_ret", "print_saved", "print_signal", "print_ref",
                   "print_event"}
  PROVE  /\ c.op = "print" => console' = Append(console, c.arg)
         /\ c.op = "print_ret" => console' = Append(console, ret[t])
         /\ c.op = "print_saved" => console' = Append(console, saved)
         /\ c.op = "print_signal" => console' = Append(console, Number(signal))
         /\ c.op = "print_ref" => console' = Append(console, "REF=0x0")
         /\ c.op = "print_event" => console' = console
         /\ Moves(t, pos[t] + 1)
         /\ UNCHANGED <<lv2, services, test, ret, saved, signal, array, failed>>
BY OtherIs DEF PrintLine, Puts, Fetch, Next_, Goes, Arg, Moves, Typed, Begun

\* What is written for the others, or kept.
LEMMA Writes ==
  ASSUME Typed, NEW t \in Threads, Runs(t), NEW c, c = Instruction(t),
         c.op \in {"store", "increment", "decrement", "save"}
  PROVE  /\ c.op = "store" => signal' = c.arg
         /\ c.op = "increment" => signal' = signal + 1
         /\ c.op = "decrement" => signal' = signal - 1
         /\ c.op = "save" => signal' = signal
         /\ saved' = IF c.op = "save" THEN ret[t] ELSE saved
         /\ Moves(t, pos[t] + 1)
         /\ UNCHANGED <<lv2, services, test, ret, array, failed, console>>
BY OtherIs DEF WriteSignal, SaveResult, Fetch, Next_, Goes, Arg, Moves, Typed, Begun

\* The end of a thread.
LEMMA Exits ==
  ASSUME Typed, NEW t \in Threads, Runs(t), NEW c, c = Instruction(t), c.op = "exit"
  PROVE  /\ thread'[t] = "ended" /\ \A u \in Threads \ {t} : thread'[u] = thread[u]
         /\ UNCHANGED <<queue, events, timer, marks, bound, mapped>>
         /\ UNCHANGED <<services, test, pos, ret, saved, signal, array, failed, console>>
BY OtherIs DEF ExitThread, sys_ppu_thread_exit, OthersUnchanged, Typed, Lv2Typed, Threaded

\* An event that a thread receives.
LEMMA Receives ==
  ASSUME Typed, NEW t \in Threads, Runs(t), NEW c, c = Instruction(t), c.op = "receive"
  PROVE  /\ \E r \in Results :
              /\ sys_event_queue_receive(c.timeout, r)
              /\ ret'[t] = r /\ \A u \in Threads \ {t} : ret'[u] = ret[u]
              /\ Moves(t, IF r \in {"ESRCH", "ETIMEDOUT"} THEN c.arg ELSE pos[t] + 1)
         /\ UNCHANGED <<thread, queue, timer, marks, bound, mapped>>
         /\ UNCHANGED <<services, test, saved, signal, array, failed, console>>
  <1>1. PICK r \in Results :
          /\ sys_event_queue_receive(c.timeout, r) /\ ret' = [ret EXCEPT ![t] = r]
          /\ IF r \in {"ESRCH", "ETIMEDOUT"} THEN Goes(t, c.arg) ELSE Goes(t, pos[t] + 1)
          /\ UNCHANGED <<services, test, saved, signal, array, failed, console>>
    BY OtherIs DEF ReceiveEvent, Next_, Arg
  <1>2. ret'[t] = r /\ \A u \in Threads \ {t} : ret'[u] = ret[u]
    BY <1>1 DEF Typed
  <1>3. Moves(t, IF r \in {"ESRCH", "ETIMEDOUT"} THEN c.arg ELSE pos[t] + 1)
    BY <1>1 DEF Goes, Moves, Typed, Begun
  <1> QED BY <1>1, <1>2, <1>3 DEF sys_event_queue_receive

\* The devices and the audio touch only the events and the timer.
LEMMA Besides ==
  ASSUME Device \/ Mix
  PROVE  /\ UNCHANGED <<thread, queue, marks, bound, mapped>>
         /\ UNCHANGED <<services, test, pos, ret, saved, signal, array, failed, console>>
         /\ timer' = timer \/ Expire
BY DEF Device, Mix, Expire, VBlank, Send

\* Its expiry stops a timer that runs once.
LEMMA Expires ==
  ASSUME Typed, Expire
  PROVE  /\ timer.state = "run" /\ timer'.period = timer.period
         /\ timer'.connected = timer.connected
         /\ timer'.state = IF timer.period = "once" THEN "stop" ELSE "run"
BY DEF Expire, Typed, Lv2Typed, Timed

\* Where a thread that runs is.
LEMMA AtInstruction ==
  ASSUME KInv, NEW t \in Threads, Runs(t)
  PROVE  /\ thread[t] = "runs" /\ ~failed /\ ~Returned /\ test' = test
         /\ pos[t] \in 1..Len(Program(t)) /\ Instruction(t) = Program(t)[pos[t]]
         /\ pos \in [Threads -> Nat] /\ pos' \in [Threads -> Nat] /\ Typed
BY RunIs, PositionsKept DEF KInv, Typed, Begun
-----------------------------------------------------------------------------
(* Consoles.                                                               *)

\* The first n lines of a console, and those of the consoles a test may show.
First(lines, n) == [i \in 1..n |-> lines[i]]
Text(x, n) == {First(lines, n) : lines \in Expected[x]}
Shown(n) == ~failed /\ console \in Text(test, n)

\* The next line is added.
LEMMA NextLine ==
  ASSUME NEW lines, NEW n \in Nat
  PROVE  Append(First(lines, n), lines[n + 1]) = First(lines, n + 1)
BY DEF First

\* A condition, counted.
One(condition) == IF condition THEN 1 ELSE 0

\* There are main and, where one is created, the thread 1.
Single == thread[0] = "runs" /\ \A t \in 2..4 : thread[t] = "none"
Lone == Single /\ thread[1] = "none"

\* Main waits for the thread, which never exits: its timer never runs out.
Overflow ==
  test = "timer_overflow" =>
    /\ Single /\ Shown(0)
    /\ pos[0] <= 6 /\ pos[1] <= 3 /\ thread[1] # "ended" /\ signal = 0
    /\ timer.connected => pos[0] > 4
    /\ timer.state = "run" => pos[0] > 5

\* Main waits for the timer, which runs on when its queue is destroyed.
Destroyed ==
  test = "timer_after_destruction" =>
    /\ Single /\ Shown(0)
    /\ pos[0] <= 7
    /\ timer.connected => pos[0] > 4
    /\ IF pos[0] > 5 THEN timer.state = "run" /\ timer.period = "periodic" ELSE timer.state # "run"
    /\ pos[0] \in 3..6 => queue = "open"

\* How many lines main has shown when it is at each instruction, and what the timer is there:
\* it runs once at first, then until it has no queue.
InfoShown == <<0, 0, 0, 0, 0, 0, 1, 1, 1, 1, 2, 2, 2, 2, 3, 3, 4, 4, 5, 5, 5, 6>>
Info ==
  test = "timer_info" =>
    /\ Single /\ Shown(InfoShown[pos[0]])
    /\ pos[0] > 20 => thread[1] = "ended"
    /\ pos[0] \in 3..15 => queue = "open"
    /\ pos[0] > 15 => queue = "destroyed"
    /\ pos[0] \in {1, 2, 3, 4, 8, 12} => ~timer.connected
    /\ pos[0] \in {5, 6, 7, 9, 10, 11} => timer.connected
    /\ pos[0] \in {4, 5, 8, 9, 12, 13} => timer.state # "run"
    /\ pos[0] \in {6, 7} => timer.state \in {"run", "stop"}
    /\ pos[0] \in {10, 11, 14, 15, 16} => timer.state = "run" /\ timer.period = "periodic"
    /\ pos[0] > 16 => timer.state = "stop"

\* What the calls have left in the mutex where main is; the thread shows the last line.
CallMarks == <<{}, {"117"}, {}, {}, {"117"}, {"117", "unlocked"}, {}, {"unlocked"},
               {"117", "unlocked"}, {}, {"unlocked"}, {"117", "unlocked"}, {}, {"117"}>>
CallShown == <<0, 0, 1, 2, 2, 2, 3, 3, 3, 4, 4, 4, 5, 5, 6, 6, 6, 6>>
Call117s ==
  test = "lwmutex_117" =>
    /\ Single /\ Shown(CallShown[pos[0]] + One(pos[1] > 2))
    /\ IF pos[0] < 15 THEN marks[1] = CallMarks[pos[0]] ELSE "unlocked" \notin marks[1]
    /\ thread[1] = "none" <=> pos[0] < 16
    /\ thread[1] = "ended" => pos[1] = 3
    /\ pos[0] > 17 => thread[1] = "ended"
    /\ pos[1] = 2 => ret[1] = "EBUSY"

\* Each thread shows what its lock returned, and then main is through its wait.
Waits ==
  test = "lwcond_wait_timeout" =>
    /\ Shown(One(pos[1] > 5) + One(pos[2] > 5) + One(pos[0] > 6))
    /\ thread[0] = "runs"
    /\ \A t \in 1..2 : /\ pos[t] = 2 => "unlocked" \in marks[t]
                       /\ pos[t] \in 3..5 => ret[t] = "OK"
                       /\ pos[0] > 5 => pos[t] = 7

\* The thread shows its line before it lets main go on.
Joinability ==
  test = "main_thread_joinability" =>
    /\ Single /\ Shown(One(pos[1] > 2) + One(pos[0] > 3))
    /\ pos[1] = 2 => ret[1] = "EINVAL"
    /\ signal = 1 => pos[1] > 3
    /\ pos[0] > 2 => pos[1] > 3

\* Main alone shows a line.
Priorities == test = "set_priority" => Shown(One(pos[0] > 11))

\* Where main is, it has shown so many lines, and the queue is there and bound; it never comes to
\* the branches of a call that failed.
BindShown == <<0, 1, 2, 3, 4, 4, 5, 6, 7, 8, 9, 9, 9, 9, 10, 10, 10, 11,
               12, 12, 12, 12, 12, 12, 12, 12>>
BindQueue ==
  test = "bind_queue" =>
    /\ Single /\ Shown(BindShown[pos[0]] + One(pos[1] > 2))
    /\ pos[0] \notin {16, 25}
    /\ queue = "open" <=> pos[0] \in {2, 3, 7, 8, 10, 11, 12, 13, 14, 15, 17, 20, 21}
    /\ bound <=> pos[0] \in {3, 4, 8, 9, 10, 11, 12, 13, 15, 17, 18, 21, 22, 23, 24, 26}
    /\ pos[0] = 5 => ret[0] = "OK"
    /\ pos[0] = 11 => ret[0] = "EBUSY"
    /\ saved = "OK"
    /\ thread[1] = "none" <=> pos[0] < 23
    /\ thread[1] = "ended" => pos[1] = 3
    /\ pos[0] > 23 => thread[1] = "ended"
    /\ pos[1] = 2 => ret[1] = "EINVAL"

\* Where main unmaps the memory, where it waits, and how many lines it has shown.
UnmapAt == IF test = "rsxunmapevent" THEN 9 ELSE 7
JoinAt == IF test = "rsxunmapevent" THEN 11 ELSE 8
UnmapShown(p) == IF p < 4 THEN p - 1 ELSE IF p < UnmapAt THEN 3 ELSE 4

\* What the driver has given after none of the calls for the device, the memory and the context, and
\* after each of them.
NothingGiven == Given(FALSE, NoBlock, NoBlock, 0)
DeviceGiven == Given(FALSE, 0, NoBlock, 1)
MemoryGiven == Given(TRUE, 0, NoBlock, 1)
AllGiven == Given(TRUE, 0, 1, 4)

\* What it has given when main is at p.
MappedAt(p) == /\ p < 2 => driver = NothingGiven
               /\ p = 2 => driver = DeviceGiven
               /\ p = 3 => driver = MemoryGiven
               /\ p > 3 => driver = AllGiven

\* The thread has the event in its hand; before, at most one is in the queue, and main is past the
\* unmap.
Held == pos[1] \in 2..3 /\ ret[1] = "unmapped"
Awaited ==
  \A i \in 1..Len(events) :
    /\ events[i] \in {"vblank", "unmapped"}
    /\ events[i] = "unmapped" => /\ pos[0] > UnmapAt /\ Shown(4) /\ ~Held
                                 /\ \A j \in 1..Len(events) : events[j] = "unmapped" => j = i
UnmapLines == Shown(UnmapShown(pos[0])) \/ (pos[0] > UnmapAt /\ Shown(5))
UnmapEvents ==
  test \in RsxTests =>
    /\ Single /\ ~failed
    /\ pos[0] <= JoinAt /\ pos[1] < 5 /\ thread[1] # "ended" /\ queue = "open"
    /\ timer.state = "none" /\ notified = "none" /\ MappedAt(pos[0])
    /\ UnmapLines
    /\ pos[0] <= UnmapAt => ~Held
    /\ pos[1] = 2 => ret[1] \in {"vblank", "unmapped"}
    /\ pos[1] = 3 => ret[1] = "unmapped"
    /\ Held => Shown(4)
    /\ Awaited

\* The queue gets events of the audio only, and from the call that adds it to the one that removes
\* it; the second queue gets none.
NotifyShown == <<0, 0, 0, 0, 1, 1, 1, 2, 3, 4, 4, 4, 4, 4, 5, 5, 5, 6, 7, 7, 8>>
OnlyAudio == \A i \in 1..Len(events) : events[i] = "event"
NotifyQueue ==
  test = "audio_set_notify_queue" =>
    /\ Lone /\ Shown(NotifyShown[pos[0]]) /\ OnlyAudio
    /\ queue = "open" <=> pos[0] \in 2..5 \cup 7..10 \cup 12..15 \cup 17..19
    /\ notified = IF pos[0] \in 3..5 \cup 13..15 \cup {18} THEN "all" ELSE "none"
    /\ pos[0] \in 6..7 => events = <<>>

\* The queue that is told of some blocks gets its events, and then is not told any more.
NotifyQueueEx ==
  test = "audio_set_notify_queue_ex" =>
    /\ Lone /\ OnlyAudio
    /\ Shown(One(pos[0] > 2) + One(pos[0] > Events + 3) + One(pos[0] > Events + 4)
             + One(pos[0] > Events + 5))
    /\ queue = "open" <=> pos[0] > 1
    /\ notified = IF pos[0] \in 3..(Events + 5) THEN "some" ELSE "none"

\* The camera starts once, is finished, and starts again.
Camera == test = "camera_update_start" => /\ Lone /\ Shown(pos[0] - 1)
                                          /\ updating <=> pos[0] \in {2, 4, 5, 6}

\* When main leaves its loop no slot for a thread is left.
Amounts ==
  test = "threads_amount" =>
    /\ Shown(One(pos[0] > 6)) /\ pos[0] \notin {8, 9}
    /\ pos[0] = 2 => ret[0] \in {"OK", "EAGAIN"}
    /\ pos[0] = 2 /\ ret[0] = "EAGAIN" => thread[4] = "interrupt"
    /\ pos[0] > 4 => ret[0] = "EAGAIN" /\ thread[4] = "interrupt"

\* What the driver has given where main is, and how many lines are shown.
InitShown == <<0, 0, 1, 1, 1, 2, 2, 2, 2, 3, 4, 5>>
Initialization ==
  test = "rsx_initialization" =>
    /\ Lone /\ Shown(InitShown[pos[0]])
    /\ pos[0] < 4 => driver = Given(FALSE, NoBlock, NoBlock, 0)
    /\ pos[0] \in 4..6 => driver = Given(TRUE, NoBlock, NoBlock, 0)
    /\ pos[0] \in 7..8 => driver = Given(TRUE, NoBlock, 0, 3)
    /\ pos[0] > 8 => driver = Given(TRUE, 3, 0, 4)
    /\ pos[0] = 4 => ret[0] = "OK"
    /\ pos[0] = 7 => ret[0] = "+0"
    /\ pos[0] > 7 => saved = "+0"

\* One of the two tests has a call before.
Before == IF test = "rsx_base_address" THEN 1 ELSE 0
BaseAddress ==
  test \in {"rsx_iounmap", "rsx_base_address"} =>
    Lone /\ Shown(pos[0] - 1) /\ MappedAt(pos[0] - Before)
Base2Shown == <<0, 0, 0, 0, 0, 0, 0, 0, 0, 0, 1, 2, 3>>
BaseAddress2 ==
  test = "rsx_base_address_2" =>
    /\ Lone /\ Shown(Base2Shown[pos[0]])
    /\ pos[0] < 4 => driver = NothingGiven
    /\ pos[0] \in 4..6 => driver = DeviceGiven
    /\ pos[0] \in 7..8 => driver = MemoryGiven
    /\ pos[0] \in 4..5 => ret[0] = "+0"
    /\ pos[0] = 7 => ret[0] = "OK"
    /\ pos[0] > 5 => saved = "+0"
    /\ pos[0] > 8 => ret[0] = "+1"
\* The same calls, shown but for the first.
ReferenceShown == <<0, 0, 1, 2, 3>>
Reference == test = "rsx_set_reference" => Lone /\ Shown(ReferenceShown[pos[0]]) /\ MappedAt(pos[0])

\* The console a test comes to with another line.
Grows(x, n, line) == \A s \in Text(x, n - 1) : Append(s, line) \in Text(x, n)

\* Where there is one console to come to.
LEMMA Adds ==
  ASSUME NEW x, NEW lines, Expected[x] = {lines}, NEW n \in Nat \ {0}
  PROVE  Grows(x, n, lines[n])
  <1>1. n - 1 \in Nat /\ (n - 1) + 1 = n
    OBVIOUS
  <1> QED BY <1>1, NextLine DEF Grows, Text

\* Or several that have this line alike.
LEMMA Adds2 ==
  ASSUME NEW x, NEW n \in Nat \ {0}, NEW line, \A lines \in Expected[x] : lines[n] = line
  PROVE  Grows(x, n, line)
  <1>1. n - 1 \in Nat /\ (n - 1) + 1 = n
    OBVIOUS
  <1>2. \A lines : Append(First(lines, n - 1), lines[n]) = First(lines, n)
    BY <1>1, NextLine
  <1> QED BY <1>2 DEF Grows, Text

\* Texts may differ in their first lines.
LEMMA AddsFirst ==
  ASSUME NEW x, NEW lines \in Expected[x]
  PROVE  Grows(x, 1, lines[1])
  <1>1. \A s : Append(First(s, 0), s[1]) = First(s, 1)
    <2>1. 0 \in Nat /\ 0 + 1 = 1
      OBVIOUS
    <2> QED BY <2>1, NextLine
  <1>2. \A r, s : First(r, 0) = First(s, 0)
    BY DEF First
  <1>3. 1 - 1 = 0
    OBVIOUS
  <1> QED BY <1>1, <1>2, <1>3 DEF Grows, Text

\* The lines of timer_info: the first depends on whether the timer is over.
LEMMA InfoText ==
  LET G(n, line) == Grows("timer_info", n, line) IN
  /\ G(1, "run") /\ G(1, "stop") /\ G(2, "run") /\ G(3, "run") /\ G(4, "ENOTCONN") /\ G(5, "stop")
  /\ G(6, "sample_finished")
  <1> DEFINE once == <<"run", "run", "run", "ENOTCONN", "stop", "sample_finished">>
             over == <<"stop", "run", "run", "ENOTCONN", "stop", "sample_finished">>
  <1>1. Expected["timer_info"] = {once, over}
    BY DEF Expected
  <1>2. once[1] = "run" /\ over[1] = "stop"
    OBVIOUS
  <1>3. \A lines \in {once, over} :
             /\ lines[2] = "run" /\ lines[3] = "run" /\ lines[4] = "ENOTCONN" /\ lines[5] = "stop"
             /\ lines[6] = "sample_finished"
    OBVIOUS
  <1> HIDE DEF once, over
  <1>4. Grows("timer_info", 1, "run") /\ Grows("timer_info", 1, "stop")
    BY <1>1, <1>2, AddsFirst
  <1>5. Grows("timer_info", 2, "run")
    BY <1>1, <1>3, Adds2
  <1>6. Grows("timer_info", 3, "run")
    BY <1>1, <1>3, Adds2
  <1>7. Grows("timer_info", 4, "ENOTCONN")
    BY <1>1, <1>3, Adds2
  <1>8. Grows("timer_info", 5, "stop")
    BY <1>1, <1>3, Adds2
  <1>9. Grows("timer_info", 6, "sample_finished")
    <2>1. once[6] = "sample_finished" /\ over[6] = "sample_finished"
      BY <1>3
    <2>2. \A lines \in Expected["timer_info"] : lines[6] = "sample_finished"
      BY <1>1, <2>1
    <2> QED BY <2>2, Adds2
  <1> QED BY <1>4, <1>5, <1>6, <1>7, <1>8, <1>9

\* The instructions of main in timer_info.
LEMMA InfoMain ==
  ASSUME test = "timer_info"
  PROVE  LET P == Program(0) IN
         /\ Len(P) = 21
         /\ P[1].op = "thread_create" /\ P[1].arg = 1 /\ P[1].mode = "OK"
         /\ P[2].op = "queue_create" /\ P[2].mode = "OK"
         /\ P[3].op = "timer_create" /\ P[3].mode = "OK"
         /\ \A n \in {4, 8, 12} : P[n].op = "timer_connect" /\ P[n].mode = "OK"
         /\ \A n \in {5, 9, 13} : /\ P[n].op = "timer_start" /\ P[n].mode = "OK"
                                   /\ P[n].arg = (IF n = 5 THEN "once" ELSE "periodic")
         /\ \A n \in {6, 10, 14, 18} : P[n].op = "timer_information" /\ P[n].mode = "print"
         /\ \A n \in {7, 11} : P[n].op = "timer_disconnect" /\ P[n].mode = "OK"
         /\ P[15].op = "queue_destroy" /\ P[15].mode = "OK"
         /\ P[16].op = "timer_disconnect" /\ P[16].mode = "print"
         /\ P[17].op = "if" /\ P[17].condition = "timer_stopped" /\ P[17].arg = 17
         /\ P[19].op = "store"
         /\ P[20].op = "join" /\ P[20].arg = 1 /\ P[20].mode = "EFAULT"
         /\ P[21].op = "print" /\ P[21].arg = "sample_finished"
BY DEF Program, Programs, timer_info, TimerTest, TimerEnd, Create, Join,
       StartTimer, CreateQueue, ConnectTimer, DisconnectTimer, Finished, Restart, DestroyQueue,
       While, If, Store, I, On, sysCell, ENSURE_OK, ENSURE_VAL

\* Its thread shows nothing.
LEMMA InfoThread ==
  ASSUME test = "timer_info", NEW t \in Threads \ {0}
  PROVE  LET P == Program(t) IN
         Len(P) = 5 /\ \A n \in 1..5 : P[n].op \in {"if", "goto", "receive", "print_event", "exit"}
  <1>1. Program(t) = timer_info.thread
    BY DEF Program, Programs
  <1> QED BY <1>1 DEF timer_info, Receive, If, Goto, Exit, I, On

\* What a thread that receives the timer's events leaves as it is.
LEMMA Quiet ==
  ASSUME Typed, NEW t \in Threads, Runs(t), NEW c, c = Instruction(t),
         c.op \in {"if", "goto", "receive", "print_event", "exit"}
  PROVE  /\ UNCHANGED <<queue, timer, marks, bound, mapped, services, test, signal, saved, array>>
         /\ UNCHANGED <<failed, console>>
         /\ \A u \in Threads \ {t} : thread'[u] = thread[u] /\ pos'[u] = pos[u]
         /\ thread'[t] # "ended" => thread'[t] = thread[t]
         /\ c.op # "exit" => thread' = thread
  <1>1. CASE c.op \in {"if", "goto"}
    BY <1>1, Branches DEF Moves, lv2
  <1>2. CASE c.op = "print_event"
    BY <1>2, Lines DEF Moves, lv2
  <1>3. CASE c.op = "receive"
    BY <1>3, Receives DEF Moves
  <1>4. CASE c.op = "exit"
    BY <1>4, Exits
  <1> QED BY <1>1, <1>2, <1>3, <1>4

\* A step of t to n, after which the console is as given.
Step(t, n, text) == /\ pos'[t] = n /\ \A u \in Threads \ {t} : pos'[u] = pos[u]
                    /\ ~failed' /\ test' = test /\ console' = text

\* What the call of t returns is kept for t alone.
Returns(t, r) == /\ ret'[t] = r /\ \A u \in Threads \ {t} : ret'[u] = ret[u]
                 /\ UNCHANGED <<signal, saved>>

\* A call that is not printed.
LEMMA Passes ==
  ASSUME NEW t, ~failed, NEW c, NEW r, Does(t, c, r), c.mode \in {"ignore", r}, r # "print"
  PROVE  Step(t, pos[t] + 1, console) /\ Returns(t, r)
BY DEF Does, Moves, Step, Returns

\* One that is.
LEMMA Tells ==
  ASSUME NEW t, ~failed, NEW c, NEW r, Does(t, c, r), c.mode = "print"
  PROVE  Step(t, pos[t] + 1, Append(console, r)) /\ Returns(t, r)
BY DEF Does, Moves, Step, Returns

\* Its line is the next.
LEMMA Says ==
  ASSUME NEW t, NEW m, NEW n \in Nat, NEW k, NEW line, Shown(m), m = n - 1, Grows(test, n, line),
         Step(t, k, Append(console, line))
  PROVE  Shown(n)'
BY DEF Shown, Grows, Step

\* The thread beside main that runs is the thread 1.
LEMMA OneBeside ==
  ASSUME Single, NEW t \in Threads \ {0}, thread[t] = "runs"
  PROVE  t = 1
  <1>1. t \in 2..4 \/ t = 1
    BY DEF Threads
  <1> QED BY <1>1 DEF Single

\* What the conditions are.
LEMMA HoldsIs ==
  ASSUME NEW t
  PROVE  /\ Holds(t, "exit") <=> signal = 1
         /\ Holds(t, "sig_is_0") <=> signal = 0
         /\ Holds(t, "timer_stopped") <=> timer.state = "stop"
         /\ Holds(t, "ok") <=> ret[t] = "OK"
         /\ Holds(t, "not_ok") <=> ret[t] # "OK"
         /\ Holds(t, "no_error") <=> ret[t] \notin {"EINVAL", "ENOMEM"}
         /\ Holds(t, "again") <=> ret[t] = "EAGAIN"
         /\ Holds(t, "saved_ok") <=> saved = "OK"
         /\ Holds(t, "not_vblank") <=> ret[t] # "vblank"
BY DEF Holds

\* The lines of the only console of a test.
LEMMA OnlyConsole ==
  ASSUME NEW x, NEW lines, Expected[x] = {lines}
  PROVE  \A n \in Nat \ {0} : Grows(x, n, lines[n])
BY Adds

\* Main is in its program, or past it.
LEMMA MainAt ==
  ASSUME KInv
  PROVE  pos[0] \in 1..(Len(Program(0)) + 1)
BY DEF KInv, Positions

\* The calls of a mutex one by one.
LEMMA Locks ==
  ASSUME Typed, NEW t \in Threads, Runs(t), NEW c, c = Instruction(t), c.op = "lock",
         NEW m \in Mutexes, m = IF c.arg = 0 THEN t ELSE c.arg
  PROVE  /\ Does(t, c, IF "unlocked" \in marks[m] THEN "OK" ELSE "EBUSY")
         /\ marks[m] # {} /\ marks'[m] = {} /\ UNCHANGED thread
BY MutexCalls DEF Mutex, Arg

\* The same of a try to lock it, which may leave it as it is.
LEMMA TriesLock ==
  ASSUME Typed, NEW t \in Threads, Runs(t), NEW c, c = Instruction(t), c.op = "trylock",
         NEW m \in Mutexes, m = IF c.arg = 0 THEN t ELSE c.arg
  PROVE  /\ Does(t, c, IF "unlocked" \in marks[m] THEN "OK" ELSE "EBUSY")
         /\ marks'[m] \in {{}, marks[m]} /\ "unlocked" \notin marks'[m] /\ UNCHANGED thread
         /\ \A o \in Mutexes \ {m} : marks'[o] = marks[o]
BY MutexCalls DEF Mutex, Arg

\* An unlock leaves its mark,
LEMMA Unlocks ==
  ASSUME Typed, NEW t \in Threads, Runs(t), NEW c, c = Instruction(t), c.op = "unlock",
         NEW m \in Mutexes, m = IF c.arg = 0 THEN t ELSE c.arg
  PROVE  /\ Does(t, c, "OK") /\ marks'[m] = marks[m] \cup {"unlocked"} /\ UNCHANGED thread
         /\ \A o \in Mutexes \ {m} : marks'[o] = marks[o]
BY MutexCalls DEF Mutex, Arg

\* so does call 117,
LEMMA Calls117 ==
  ASSUME Typed, NEW t \in Threads, Runs(t), NEW c, c = Instruction(t), c.op = "117",
         NEW m \in Mutexes, m = IF c.arg = 0 THEN t ELSE c.arg
  PROVE  /\ Does(t, c, "OK") /\ marks'[m] = marks[m] \cup {"117"} /\ UNCHANGED thread
BY MutexCalls DEF Mutex, Arg

\* and a wait that times out.
LEMMA CondWaits ==
  ASSUME Typed, NEW t \in Threads, Runs(t), NEW c, c = Instruction(t), c.op = "lwcond_wait",
         NEW m \in Mutexes, m = IF c.arg = 0 THEN t ELSE c.arg
  PROVE  /\ Does(t, c, "ETIMEDOUT") /\ marks'[m] = marks[m] \cup {"unlocked"} /\ UNCHANGED thread
         /\ \A o \in Mutexes \ {m} : marks'[o] = marks[o]
BY MutexCalls DEF Mutex, Arg

-----------------------------------------------------------------------------
(* The tests of the kernel's objects.                                      *)

\* The instructions of timer_overflow.
LEMMA OverflowPrograms ==
  ASSUME test = "timer_overflow"
  PROVE  LET P == Program(0) IN
         /\ Len(P) = 9
         /\ P[1].op = "thread_create" /\ P[1].arg = 1 /\ P[1].mode = "OK"
         /\ P[2].op = "queue_create" /\ P[2].mode = "OK"
         /\ P[3].op = "timer_create" /\ P[3].mode = "OK"
         /\ P[4].op = "timer_connect" /\ P[4].mode = "OK"
         /\ P[5].op = "timer_start" /\ P[5].mode = "OK"
         /\ P[6].op = "join" /\ P[6].arg = 1 /\ P[6].mode = "EFAULT"
BY DEF Program, Programs, timer_overflow, TimerTest, TimerEnd, Create, Join, StartTimer,
   CreateQueue, ConnectTimer, DisconnectTimer, Finished, I, On, sysCell, ENSURE_OK, ENSURE_VAL

\* Its thread shows nothing.
LEMMA OverflowThread ==
  ASSUME test = "timer_overflow", NEW t \in Threads \ {0}
  PROVE  LET P == Program(t) IN
         /\ Len(P) = 4 /\ P[1].op = "receive" /\ P[1].arg = 3 /\ P[2].op = "print_event"
         /\ P[3].op = "if" /\ P[3].condition = "exit" /\ P[3].arg = 1
  <1>1. Program(t) = timer_overflow.thread
    BY DEF Program, Programs
  <1> QED BY <1>1 DEF timer_overflow, _rec, Receive, If, Exit, I, On

\* The instructions of timer_after_destruction.
LEMMA DestroyedPrograms ==
  ASSUME test = "timer_after_destruction"
  PROVE  LET P == Program(0) IN
         /\ Len(P) = 12
         /\ P[1].op = "thread_create" /\ P[1].arg = 1 /\ P[1].mode = "OK"
         /\ P[2].op = "queue_create" /\ P[2].mode = "OK"
         /\ P[3].op = "timer_create" /\ P[3].mode = "OK"
         /\ P[4].op = "timer_connect" /\ P[4].mode = "OK"
         /\ P[5].op = "timer_start" /\ P[5].mode = "OK" /\ P[5].arg = "periodic"
         /\ P[6].op = "queue_destroy" /\ P[6].mode = "OK"
         /\ P[7].op = "if" /\ P[7].condition = "timer_stopped" /\ P[7].arg = 7
BY DEF Program, Programs, timer_after_destruction, TimerTest, TimerEnd, Create, Join, StartTimer,
   CreateQueue, ConnectTimer, DisconnectTimer, Finished, DestroyQueue, While, If, Store, I, On,
   sysCell, ENSURE_OK, ENSURE_VAL

\* Nor does its thread show anything.
LEMMA DestroyedThread ==
  ASSUME test = "timer_after_destruction", NEW t \in Threads \ {0}
  PROVE  LET P == Program(t) IN
         Len(P) = 4 /\ \A n \in 1..4 : P[n].op \in {"receive", "print_event", "if", "exit"}
  <1>1. Program(t) = timer_after_destruction.thread
    BY DEF Program, Programs
  <1> QED BY <1>1 DEF timer_after_destruction, _rec, Receive, If, Exit, I, On

\* Main waits for a thread that receives to the end.
LEMMA OverflowKept ==
  ASSUME KInv, Overflow, NEW t \in Threads, Runs(t) PROVE Overflow'
  <1> SUFFICES ASSUME test = "timer_overflow" PROVE Overflow'
    BY AtInstruction DEF Overflow
  <1> DEFINE P == Program(t)
  <1>1. /\ thread[t] = "runs" /\ test' = test /\ Typed /\ ~failed
        /\ pos[t] \in 1..Len(P) /\ Instruction(t) = P[pos[t]]
        /\ pos \in [Threads -> Nat] /\ timer.state \in {"none", "stop", "run"}
    BY AtInstruction DEF Typed, Lv2Typed, Timed
  <1>2. CASE t # 0
    <2>1. t = 1
      BY <1>1, <1>2, OneBeside DEF Overflow
    <2>2. CASE pos[1] = 1
      <3>1. P[1].op = "receive" /\ P[1].arg = 3
        BY <1>2, OverflowThread
      <3>2. /\ UNCHANGED <<thread, timer, signal, failed, console, test>>
            /\ pos'[0] = pos[0] /\ pos'[1] \in {2, 3}
        BY <1>1, <2>1, <2>2, <3>1, Receives DEF Moves, Threads
      <3> QED BY <2>2, <3>2 DEF Overflow, Single, Shown, Text
    <2>3. CASE pos[1] = 2
      <3>1. P[2].op = "print_event"
        BY <1>2, OverflowThread
      <3>2. /\ UNCHANGED <<thread, timer, signal, failed, console, test>>
            /\ pos'[0] = pos[0] /\ pos'[1] = 3
        BY <1>1, <2>1, <2>3, <3>1, Lines DEF Moves, Threads, lv2
      <3> QED BY <2>3, <3>2 DEF Overflow, Single, Shown, Text
    <2>4. CASE pos[1] = 3
      <3>1. P[3].op = "if" /\ P[3].condition = "exit" /\ P[3].arg = 1
        BY <1>2, OverflowThread
      <3>2. /\ UNCHANGED <<thread, timer, signal, failed, console, test>>
            /\ pos'[0] = pos[0] /\ pos'[1] = 1
        BY <1>1, <2>1, <2>4, <3>1, Branches, HoldsIs DEF Moves, Threads, lv2, Overflow
      <3> QED BY <2>4, <3>2 DEF Overflow, Single, Shown, Text
    <2>5. pos[1] \in 1..3
      BY <1>1, <2>1 DEF Overflow
    <2> QED BY <2>2, <2>3, <2>4, <2>5
  <1>3. CASE t = 0
    <2> Len(P) = 9
      BY <1>3, OverflowPrograms
    <2>1. CASE pos[0] = 1
      <3>1. P[1].op = "thread_create" /\ P[1].mode = "OK" /\ P[1].arg = 1
        BY <1>3, OverflowPrograms
      <3>2. /\ Step(0, 2, console) /\ UNCHANGED <<queue, timer, signal>>
             /\ thread'[1] = "runs" /\ \A u \in Threads \ {1} : thread'[u] = thread[u]
        BY <1>1, <1>3, <2>1, <3>1, Creates, Passes DEF Returns, Threads
      <3> QED BY <1>1, <1>3, <2>1, <3>2 DEF Overflow, Step, Single, Shown, Threads
    <2>2. CASE pos[0] = 2
      <3>1. P[2].op = "queue_create" /\ P[2].mode = "OK"
        BY <1>3, OverflowPrograms
      <3>2. Step(0, 3, console) /\ UNCHANGED <<thread, timer, signal>> /\ queue' = "open"
        BY <1>1, <1>3, <2>2, <3>1, QueueCreates, Passes DEF Returns
      <3> QED BY <1>1, <1>3, <2>2, <3>2 DEF Overflow, Step, Single, Shown, Threads
    <2>3. CASE pos[0] = 3
      <3>1. P[3].op = "timer_create" /\ P[3].mode = "OK"
        BY <1>3, OverflowPrograms
      <3>2. /\ Step(0, 4, console) /\ UNCHANGED <<thread, queue, signal>>
             /\ timer'.state = "stop" /\ ~timer'.connected
        BY <1>1, <1>3, <2>3, <3>1, TimerCreates, Passes DEF Returns
      <3> QED BY <1>1, <1>3, <2>3, <3>2 DEF Overflow, Step, Single, Shown, Threads
    <2>4. CASE pos[0] = 4
      <3>1. P[4].op = "timer_connect" /\ P[4].mode = "OK"
        BY <1>3, OverflowPrograms
      <3>2. /\ Step(0, 5, console) /\ UNCHANGED <<thread, queue, signal>>
             /\ timer'.state = timer.state /\ timer'.connected
        BY <1>1, <1>3, <2>4, <3>1, TimerConnects, Passes DEF Overflow, Returns
      <3> QED BY <1>1, <1>3, <2>4, <3>2 DEF Overflow, Step, Single, Shown, Threads
    <2>5. CASE pos[0] = 5
      <3>1. P[5].op = "timer_start" /\ P[5].mode = "OK"
        BY <1>3, OverflowPrograms
      <3>2. /\ Step(0, 6, console) /\ UNCHANGED <<thread, queue, signal>>
             /\ timer'.state = "run" /\ timer'.connected = timer.connected
        BY <1>1, <1>3, <2>5, <3>1, TimerStarts, Passes DEF Overflow, Returns
      <3> QED BY <1>1, <1>3, <2>5, <3>2 DEF Overflow, Step, Single, Shown, Threads
    <2>6. CASE pos[0] = 6
      <3>1. P[6].op = "join" /\ P[6].arg = 1
        BY <1>3, OverflowPrograms
      <3> QED BY <1>1, <1>3, <2>6, <3>1, JoinsEnded DEF Overflow
    <2>7. pos[0] \in 1..6
      BY <1>1, <1>3 DEF Overflow
    <2> QED BY <2>1, <2>2, <2>3, <2>4, <2>5, <2>6, <2>7
  <1> QED BY <1>2, <1>3

\* Main waits for a timer that does not stop.
LEMMA DestroyedKept ==
  ASSUME KInv, Destroyed, NEW t \in Threads, Runs(t) PROVE Destroyed'
  <1> SUFFICES ASSUME test = "timer_after_destruction" PROVE Destroyed'
    BY AtInstruction DEF Destroyed
  <1> DEFINE P == Program(t)
  <1>1. /\ thread[t] = "runs" /\ test' = test /\ Typed /\ ~failed
        /\ pos[t] \in 1..Len(P) /\ Instruction(t) = P[pos[t]]
        /\ pos \in [Threads -> Nat] /\ timer.state \in {"none", "stop", "run"}
    BY AtInstruction DEF Typed, Lv2Typed, Timed
  <1>2. CASE t # 0
    <2>1. t = 1
      BY <1>1, <1>2, OneBeside DEF Destroyed
    <2>2. P[pos[t]].op \in {"if", "goto", "receive", "print_event", "exit"}
      BY <1>1, <1>2, DestroyedThread
    <2>3. /\ UNCHANGED <<queue, timer, failed, console, test>>
          /\ \A u \in Threads \ {t} : thread'[u] = thread[u] /\ pos'[u] = pos[u]
      BY <1>1, <2>2, Quiet
    <2>4. 0 \in Threads \ {t}
      BY <2>1 DEF Threads
    <2>5. Single' /\ Shown(0)' /\ pos'[0] = pos[0]
      BY <2>1, <2>3, <2>4 DEF Destroyed, Single, Shown, Threads
    <2> QED BY <2>3, <2>5 DEF Destroyed
  <1>3. CASE t = 0
    <2> Len(P) = 12
      BY <1>3, DestroyedPrograms
    <2>1. CASE pos[0] = 1
      <3>1. P[1].op = "thread_create" /\ P[1].mode = "OK" /\ P[1].arg = 1
        BY <1>3, DestroyedPrograms
      <3>2. /\ Step(0, 2, console) /\ UNCHANGED <<queue, timer>>
             /\ thread'[1] = "runs" /\ \A u \in Threads \ {1} : thread'[u] = thread[u]
        BY <1>1, <1>3, <2>1, <3>1, Creates, Passes DEF Returns, Threads
      <3> QED BY <1>1, <1>3, <2>1, <3>2 DEF Destroyed, Step, Single, Shown, Threads
    <2>2. CASE pos[0] = 2
      <3>1. P[2].op = "queue_create" /\ P[2].mode = "OK"
        BY <1>3, DestroyedPrograms
      <3>2. Step(0, 3, console) /\ UNCHANGED <<thread, timer>> /\ queue' = "open"
        BY <1>1, <1>3, <2>2, <3>1, QueueCreates, Passes DEF Returns
      <3> QED BY <1>1, <1>3, <2>2, <3>2 DEF Destroyed, Step, Single, Shown, Threads
    <2>3. CASE pos[0] = 3
      <3>1. P[3].op = "timer_create" /\ P[3].mode = "OK"
        BY <1>3, DestroyedPrograms
      <3>2. /\ Step(0, 4, console) /\ UNCHANGED <<thread, queue>>
             /\ timer'.state = "stop" /\ ~timer'.connected
        BY <1>1, <1>3, <2>3, <3>1, TimerCreates, Passes DEF Returns
      <3> QED BY <1>1, <1>3, <2>3, <3>2 DEF Destroyed, Step, Single, Shown, Threads
    <2>4. CASE pos[0] = 4
      <3>1. P[4].op = "timer_connect" /\ P[4].mode = "OK"
        BY <1>3, DestroyedPrograms
      <3>2. /\ Step(0, 5, console) /\ UNCHANGED <<thread, queue>>
             /\ timer'.state = timer.state /\ timer'.connected
        BY <1>1, <1>3, <2>4, <3>1, TimerConnects, Passes DEF Destroyed, Returns
      <3> QED BY <1>1, <1>3, <2>4, <3>2 DEF Destroyed, Step, Single, Shown, Threads
    <2>5. CASE pos[0] = 5
      <3>1. P[5].op = "timer_start" /\ P[5].mode = "OK" /\ P[5].arg = "periodic"
        BY <1>3, DestroyedPrograms
      <3>2. /\ Step(0, 6, console) /\ UNCHANGED <<thread, queue>>
             /\ timer'.state = "run" /\ timer'.period = "periodic"
             /\ timer'.connected = timer.connected
        BY <1>1, <1>3, <2>5, <3>1, TimerStarts, Passes DEF Destroyed, Returns
      <3> QED BY <1>1, <1>3, <2>5, <3>2 DEF Destroyed, Step, Single, Shown, Threads
    <2>6. CASE pos[0] = 6
      <3>1. P[6].op = "queue_destroy" /\ P[6].mode = "OK"
        BY <1>3, DestroyedPrograms
      <3>2. Step(0, 7, console) /\ UNCHANGED <<thread, timer>>
        BY <1>1, <1>3, <2>6, <3>1, QueueDestroys, Passes DEF Destroyed
      <3> QED BY <1>1, <1>3, <2>6, <3>2 DEF Destroyed, Step, Single, Shown, Threads
    <2>7. CASE pos[0] = 7
      <3>1. /\ P[7].op = "if" /\ P[7].condition = "timer_stopped"
             /\ P[7].arg = 7
        BY <1>3, DestroyedPrograms
      <3>2. Step(0, 7, console) /\ UNCHANGED <<thread, queue, timer>>
        BY <1>1, <1>3, <2>7, <3>1, Branches, HoldsIs DEF Destroyed, Moves, Step, lv2
      <3> QED BY <1>1, <1>3, <2>7, <3>2 DEF Destroyed, Step, Single, Shown, Threads
    <2>8. pos[0] \in 1..7
      BY <1>1, <1>3 DEF Destroyed
    <2> QED BY <2>1, <2>2, <2>3, <2>4, <2>5, <2>6, <2>7, <2>8
  <1> QED BY <1>2, <1>3

\* So are those of timer_info.
LEMMA InfoKept ==
  ASSUME KInv, Info, NEW t \in Threads, Runs(t) PROVE Info'
  <1> SUFFICES ASSUME test = "timer_info" PROVE Info'
    BY AtInstruction DEF Info
  <1> DEFINE P == Program(t)
  <1>1. /\ thread[t] = "runs" /\ test' = test /\ Typed /\ ~failed
        /\ pos[t] \in 1..Len(P) /\ Instruction(t) = P[pos[t]]
        /\ pos \in [Threads -> Nat] /\ timer.state \in {"none", "stop", "run"}
    BY AtInstruction DEF Typed, Lv2Typed, Timed
  <1>2. CASE t # 0
    <2>1. t = 1
      BY <1>1, <1>2, OneBeside DEF Info
    <2>2. P[pos[t]].op \in {"if", "goto", "receive", "print_event", "exit"}
      BY <1>1, <1>2, InfoThread
    <2>3. /\ UNCHANGED <<queue, timer, failed, console, test>>
          /\ \A u \in Threads \ {t} : thread'[u] = thread[u] /\ pos'[u] = pos[u]
      BY <1>1, <2>2, Quiet
    <2>4. 0 \in Threads \ {t}
      BY <2>1 DEF Threads
    <2>5. pos[0] \in Nat /\ ~(pos[0] > 20) /\ pos'[0] = pos[0]
      BY <1>1, <2>1, <2>3, <2>4 DEF Info
    <2>6. Single' /\ Shown(InfoShown[pos[0]])'
      BY <2>1, <2>3, <2>5 DEF Info, Single, Shown, Threads
    <2> QED BY <2>1, <2>3, <2>5, <2>6 DEF Info
  <1>3. CASE t = 0
    <2> Len(P) = 21
      BY <1>3, InfoMain
    <2>1. CASE pos[0] = 1
      <3>1. P[1].op = "thread_create" /\ P[1].mode = "OK" /\ P[1].arg = 1
        BY <1>3, InfoMain
      <3>2. /\ Step(0, 2, console) /\ UNCHANGED <<queue, timer>>
             /\ thread'[1] = "runs" /\ \A u \in Threads \ {1} : thread'[u] = thread[u]
        BY <1>1, <1>3, <2>1, <3>1, Creates, Passes DEF Threads
      <3> QED BY <1>1, <1>3, <2>1, <3>2 DEF Info, Step, Single, InfoShown, Shown, Threads
    <2>2. CASE pos[0] = 2
      <3>1. P[2].op = "queue_create" /\ P[2].mode = "OK"
        BY <1>3, InfoMain
      <3>2. Step(0, 3, console) /\ UNCHANGED <<thread, timer>> /\ queue' = "open"
        BY <1>1, <1>3, <2>2, <3>1, QueueCreates, Passes
      <3> QED BY <1>1, <1>3, <2>2, <3>2 DEF Info, Step, Single, InfoShown, Shown
    <2>3. CASE pos[0] = 3
      <3>1. P[3].op = "timer_create" /\ P[3].mode = "OK"
        BY <1>3, InfoMain
      <3>2. /\ Step(0, 4, console) /\ UNCHANGED <<thread, queue>>
             /\ timer'.state = "stop" /\ ~timer'.connected
        BY <1>1, <1>3, <2>3, <3>1, TimerCreates, Passes
      <3> QED BY <1>1, <1>3, <2>3, <3>2 DEF Info, Step, Single, InfoShown, Shown
    <2>4. CASE pos[0] = 4
      <3>1. P[4].op = "timer_connect" /\ P[4].mode = "OK"
        BY <1>3, InfoMain
      <3>2. /\ Step(0, 5, console) /\ UNCHANGED <<thread, queue>>
             /\ timer'.state = timer.state /\ timer'.connected
        BY <1>1, <1>3, <2>4, <3>1, TimerConnects, Passes DEF Info
      <3> QED BY <1>1, <1>3, <2>4, <3>2 DEF Info, Step, Single, InfoShown, Shown
    <2>5. CASE pos[0] = 5
      <3>1. P[5].op = "timer_start" /\ P[5].mode = "OK" /\ P[5].arg = "once"
        BY <1>3, InfoMain
      <3>2. /\ Step(0, 6, console) /\ UNCHANGED <<thread, queue>>
             /\ timer'.state = "run" /\ timer'.period = "once" /\ timer'.connected = timer.connected
        BY <1>1, <1>3, <2>5, <3>1, TimerStarts, Passes DEF Info
      <3> QED BY <1>1, <1>3, <2>5, <3>2 DEF Info, Step, Single, InfoShown, Shown
    <2>6. CASE pos[0] = 8
      <3>1. P[8].op = "timer_connect" /\ P[8].mode = "OK"
        BY <1>3, InfoMain
      <3>2. /\ Step(0, 9, console) /\ UNCHANGED <<thread, queue>>
             /\ timer'.state = timer.state /\ timer'.connected
        BY <1>1, <1>3, <2>6, <3>1, TimerConnects, Passes DEF Info
      <3> QED BY <1>1, <1>3, <2>6, <3>2 DEF Info, Step, Single, InfoShown, Shown
    <2>7. CASE pos[0] = 9
      <3>1. P[9].op = "timer_start" /\ P[9].mode = "OK" /\ P[9].arg = "periodic"
        BY <1>3, InfoMain
      <3>2. /\ Step(0, 10, console) /\ UNCHANGED <<thread, queue>>
             /\ timer'.state = "run" /\ timer'.period = "periodic"
             /\ timer'.connected = timer.connected
        BY <1>1, <1>3, <2>7, <3>1, TimerStarts, Passes DEF Info
      <3> QED BY <1>1, <1>3, <2>7, <3>2 DEF Info, Step, Single, InfoShown, Shown
    <2>8. CASE pos[0] = 12
      <3>1. P[12].op = "timer_connect" /\ P[12].mode = "OK"
        BY <1>3, InfoMain
      <3>2. /\ Step(0, 13, console) /\ UNCHANGED <<thread, queue>>
             /\ timer'.state = timer.state /\ timer'.connected
        BY <1>1, <1>3, <2>8, <3>1, TimerConnects, Passes DEF Info
      <3> QED BY <1>1, <1>3, <2>8, <3>2 DEF Info, Step, Single, InfoShown, Shown
    <2>9. CASE pos[0] = 13
      <3>1. P[13].op = "timer_start" /\ P[13].mode = "OK" /\ P[13].arg = "periodic"
        BY <1>3, InfoMain
      <3>2. /\ Step(0, 14, console) /\ UNCHANGED <<thread, queue>>
             /\ timer'.state = "run" /\ timer'.period = "periodic"
             /\ timer'.connected = timer.connected
        BY <1>1, <1>3, <2>9, <3>1, TimerStarts, Passes DEF Info
      <3> QED BY <1>1, <1>3, <2>9, <3>2 DEF Info, Step, Single, InfoShown, Shown
    <2>10. CASE pos[0] = 6
      <3>1. P[6].op = "timer_information" /\ P[6].mode = "print"
        BY <1>3, InfoMain
      <3>2. Step(0, 7, Append(console, timer.state)) /\ UNCHANGED <<thread, queue, timer>>
        BY <1>1, <1>3, <2>10, <3>1, TimerInforms, Tells DEF lv2
      <3>3. Shown(1)'
        BY <2>10, <3>2, InfoText, Says DEF Info, InfoShown
      <3> QED BY <1>1, <1>3, <2>10, <3>2, <3>3 DEF Info, Step, Single, InfoShown
    <2>11. CASE pos[0] = 10
      <3>1. P[10].op = "timer_information" /\ P[10].mode = "print"
        BY <1>3, InfoMain
      <3>2. Step(0, 11, Append(console, timer.state)) /\ UNCHANGED <<thread, queue, timer>>
        BY <1>1, <1>3, <2>11, <3>1, TimerInforms, Tells DEF lv2
      <3>3. Shown(2)'
        BY <2>11, <3>2, InfoText, Says DEF Info, InfoShown
      <3> QED BY <1>1, <1>3, <2>11, <3>2, <3>3 DEF Info, Step, Single, InfoShown
    <2>12. CASE pos[0] = 14
      <3>1. P[14].op = "timer_information" /\ P[14].mode = "print"
        BY <1>3, InfoMain
      <3>2. Step(0, 15, Append(console, timer.state)) /\ UNCHANGED <<thread, queue, timer>>
        BY <1>1, <1>3, <2>12, <3>1, TimerInforms, Tells DEF lv2
      <3>3. Shown(3)'
        BY <2>12, <3>2, InfoText, Says DEF Info, InfoShown
      <3> QED BY <1>1, <1>3, <2>12, <3>2, <3>3 DEF Info, Step, Single, InfoShown
    <2>13. CASE pos[0] = 18
      <3>1. P[18].op = "timer_information" /\ P[18].mode = "print"
        BY <1>3, InfoMain
      <3>2. Step(0, 19, Append(console, timer.state)) /\ UNCHANGED <<thread, queue, timer>>
        BY <1>1, <1>3, <2>13, <3>1, TimerInforms, Tells DEF lv2
      <3>3. Shown(5)'
        BY <2>13, <3>2, InfoText, Says DEF Info, InfoShown
      <3> QED BY <1>1, <1>3, <2>13, <3>2, <3>3 DEF Info, Step, Single, InfoShown
    <2>14. CASE pos[0] = 7
      <3>1. P[7].op = "timer_disconnect" /\ P[7].mode = "OK"
        BY <1>3, InfoMain
      <3>2. /\ Step(0, 8, console) /\ UNCHANGED <<thread, queue>>
             /\ timer'.state = "stop" /\ ~timer'.connected
        BY <1>1, <1>3, <2>14, <3>1, TimerDisconnects, Passes DEF Info
      <3> QED BY <1>1, <1>3, <2>14, <3>2 DEF Info, Step, Single, InfoShown, Shown
    <2>15. CASE pos[0] = 11
      <3>1. P[11].op = "timer_disconnect" /\ P[11].mode = "OK"
        BY <1>3, InfoMain
      <3>2. /\ Step(0, 12, console) /\ UNCHANGED <<thread, queue>>
             /\ timer'.state = "stop" /\ ~timer'.connected
        BY <1>1, <1>3, <2>15, <3>1, TimerDisconnects, Passes DEF Info
      <3> QED BY <1>1, <1>3, <2>15, <3>2 DEF Info, Step, Single, InfoShown, Shown
    <2>16. CASE pos[0] = 15
      <3>1. P[15].op = "queue_destroy" /\ P[15].mode = "OK"
        BY <1>3, InfoMain
      <3>2. Step(0, 16, console) /\ UNCHANGED <<thread, timer>> /\ queue' = "destroyed"
        BY <1>1, <1>3, <2>16, <3>1, QueueDestroys, Passes DEF Info
      <3> QED BY <1>1, <1>3, <2>16, <3>2 DEF Info, Step, Single, InfoShown, Shown
    <2>17. CASE pos[0] = 16
      <3>1. P[16].op = "timer_disconnect" /\ P[16].mode = "print"
        BY <1>3, InfoMain
      <3>2. /\ Step(0, 17, Append(console, "ENOTCONN")) /\ UNCHANGED <<thread, queue>>
             /\ timer'.state = "stop" /\ ~timer'.connected
        BY <1>1, <1>3, <2>17, <3>1, TimerDisconnects, Tells DEF Info
      <3>3. Shown(4)'
        BY <2>17, <3>2, InfoText, Says DEF Info, InfoShown
      <3> QED BY <1>1, <1>3, <2>17, <3>2, <3>3 DEF Info, Step, Single, InfoShown
    <2>18. CASE pos[0] = 17
      <3>1. P[17].op = "if" /\ P[17].condition = "timer_stopped" /\ P[17].arg = 17
        BY <1>3, InfoMain
      <3>2. UNCHANGED <<thread, queue, timer>> /\ Step(0, 18, console)
        BY <1>1, <1>3, <2>18, <3>1, Branches, HoldsIs DEF Info, Moves, Step, lv2
      <3> QED BY <1>1, <1>3, <2>18, <3>2 DEF Info, Step, Single, InfoShown, Shown
    <2>19. CASE pos[0] = 19
      <3>1. P[19].op = "store"
        BY <1>3, InfoMain
      <3>2. UNCHANGED <<thread, queue, timer>> /\ Step(0, 20, console)
        BY <1>1, <1>3, <2>19, <3>1, Writes DEF Moves, Step, lv2
      <3> QED BY <1>1, <1>3, <2>19, <3>2 DEF Info, Step, Single, InfoShown, Shown
    <2>20. CASE pos[0] = 20
      <3>1. P[20].op = "join" /\ P[20].arg = 1 /\ P[20].mode = "EFAULT"
        BY <1>3, InfoMain
      <3>2. UNCHANGED <<thread, queue, timer>> /\ Step(0, 21, console) /\ thread[1] = "ended"
        BY <1>1, <1>3, <2>20, <3>1, JoinsEnded, Passes DEF lv2
      <3> QED BY <1>1, <1>3, <2>20, <3>2 DEF Info, Step, Single, InfoShown, Shown
    <2>21. CASE pos[0] = 21
      <3>1. P[21].op = "print" /\ P[21].arg = "sample_finished"
        BY <1>3, InfoMain
      <3>2. UNCHANGED <<thread, queue, timer>> /\ Step(0, 22, Append(console, "sample_finished"))
        BY <1>1, <1>3, <2>21, <3>1, Lines DEF Moves, Step, lv2
      <3>3. Shown(6)'
        BY <2>21, <3>2, InfoText, Says DEF Info, InfoShown
      <3> QED BY <1>1, <1>3, <2>21, <3>2, <3>3 DEF Info, Step, Single, InfoShown
    <2> QED BY <1>1, <1>3, <2>1, <2>2, <2>3, <2>4, <2>5, <2>10, <2>14, <2>6, <2>7, <2>11, <2>15,
      <2>8, <2>9, <2>12, <2>16, <2>17, <2>18, <2>13, <2>19, <2>20, <2>21
  <1> QED BY <1>2, <1>3

\* The instructions of lwmutex_117.
LEMMA Call117Programs ==
  ASSUME test = "lwmutex_117"
  PROVE  LET P == Program(0) IN
         /\ Len(P) = 17
         /\ \A n \in {1, 4, 8, 11, 13, 16} : P[n].op = "117" /\ P[n].arg = 1
         /\ \A n \in {1, 4, 8, 11, 13} : P[n].mode = "OK"
         /\ P[16].mode = "ignore"
         /\ \A n \in {2, 6, 9} : P[n].op = "lock" /\ P[n].arg = 1 /\ P[n].mode = "print"
         /\ \A n \in {3, 12, 14} : P[n].op = "trylock" /\ P[n].arg = 1 /\ P[n].mode = "print"
         /\ \A n \in {5, 7, 10} : P[n].op = "unlock" /\ P[n].arg = 1 /\ P[n].mode = "OK"
         /\ P[15].op = "thread_create" /\ P[15].arg = 1 /\ P[15].mode = "OK"
         /\ P[17].op = "join" /\ P[17].arg = 1 /\ P[17].mode = "EFAULT"
BY DEF Program, Programs, lwmutex_117, Call117, Lock, TryLock, Unlock, Create, Join, On, sysCell,
   ENSURE_OK, ENSURE_VAL

\* Its thread locks the mutex and shows the result.
LEMMA Call117Thread ==
  ASSUME test = "lwmutex_117", NEW t \in Threads \ {0}
  PROVE  LET P == Program(t) IN
         /\ Len(P) = 3 /\ P[1].op = "lock" /\ P[1].arg = 1 /\ P[1].mode = "ignore"
         /\ P[2].op = "print_ret" /\ P[3].op = "exit"
  <1>1. Program(t) = lwmutex_117.thread
    BY DEF Program, Programs
  <1> QED BY <1>1 DEF lwmutex_117, Exit, I, On

\* The lines of lwmutex_117.
LEMMA Call117Text ==
  LET G(n, line) == Grows("lwmutex_117", n, line) IN
  /\ G(1, "EBUSY") /\ G(2, "EBUSY") /\ G(3, "OK") /\ G(4, "OK") /\ G(5, "OK") /\ G(6, "EBUSY")
  /\ G(7, "EBUSY")
  <1> DEFINE lines == <<"EBUSY", "EBUSY", "OK", "OK", "OK", "EBUSY", "EBUSY">>
  <1>1. Expected["lwmutex_117"] = {lines}
    BY DEF Expected
  <1>2. /\ lines[1] = "EBUSY" /\ lines[2] = "EBUSY" /\ lines[3] = "OK" /\ lines[4] = "OK"
        /\ lines[5] = "OK" /\ lines[6] = "EBUSY" /\ lines[7] = "EBUSY"
    OBVIOUS
  <1> HIDE DEF lines
  <1>3. \A n \in Nat \ {0} : Grows("lwmutex_117", n, lines[n])
    BY <1>1, OnlyConsole
  <1> QED BY <1>2, <1>3

\* What 117 and the unlocks leave in the mutex shows in the order of main's locks.
LEMMA Call117sKept ==
  ASSUME KInv, Call117s, NEW t \in Threads, Runs(t) PROVE Call117s'
  <1> SUFFICES ASSUME test = "lwmutex_117" PROVE Call117s'
    BY AtInstruction DEF Call117s
  <1> DEFINE P == Program(t)
  <1>1. /\ thread[t] = "runs" /\ test' = test /\ Typed /\ ~failed
        /\ pos[t] \in 1..Len(P) /\ Instruction(t) = P[pos[t]]
        /\ pos \in [Threads -> Nat] /\ 1 \in Mutexes /\ 1 \in Threads
    <2>1. 1 \in Mutexes /\ 1 \in Threads
      BY DEF Mutexes, Threads
    <2> QED BY <2>1, AtInstruction
  <1>2. pos[0] < 16 => pos[1] = 1
    BY <1>1 DEF Typed, Begun, Call117s
  <1>3. CASE t # 0
    <2>1. t = 1
      BY <1>1, <1>3, OneBeside DEF Call117s
    <2>2. CASE pos[1] = 1
      <3>1. P[1].op = "lock" /\ P[1].arg = 1 /\ P[1].mode = "ignore"
        BY <1>3, Call117Thread
      <3>2. ~(pos[0] < 16) /\ ~(pos[0] < 15) /\ "unlocked" \notin marks[1]
        BY <1>1, <2>1 DEF Call117s, Threads
      <3>3. /\ Step(1, 2, console) /\ UNCHANGED thread
            /\ ret'[1] = "EBUSY" /\ marks'[1] = {}
        BY <1>1, <2>1, <2>2, <3>1, <3>2, Locks, Passes DEF Returns
      <3>4. pos'[0] = pos[0] /\ pos'[1] = 2
        BY <3>3 DEF Step, Threads
      <3>5. Shown(CallShown[pos[0]] + One(pos[1] > 2))'
        BY <2>2, <3>3, <3>4 DEF Call117s, Shown, Step, One
      <3> QED BY <1>1, <2>1, <2>2, <3>2, <3>3, <3>4, <3>5 DEF Call117s, Single, Step
    <2>3. CASE pos[1] = 2
      <3>1. P[2].op = "print_ret"
        BY <1>3, Call117Thread
      <3>2. /\ Step(1, 3, Append(console, "EBUSY")) /\ UNCHANGED <<thread, marks, ret>>
        BY <1>1, <2>1, <2>3, <3>1, Lines DEF Call117s, Moves, Step, lv2
      <3>3. pos[0] \in 16..17 /\ pos'[0] = pos[0] /\ pos'[1] = 3
        BY <1>1, <2>1, <3>2 DEF Call117s, Step, Threads
      <3>4. Shown(7)'
        BY <2>3, <3>2, <3>3, Call117Text, Says DEF Call117s, CallShown, One
      <3>5. Shown(CallShown[pos[0]] + One(pos[1] > 2))'
        BY <3>3, <3>4 DEF CallShown, One
      <3> QED BY <1>1, <2>1, <2>3, <3>2, <3>3, <3>5 DEF Call117s, Single, Step
    <2>4. CASE pos[1] = 3
      <3>1. P[3].op = "exit"
        BY <1>3, Call117Thread
      <3>2. /\ thread'[1] = "ended" /\ \A u \in Threads \ {1} : thread'[u] = thread[u]
            /\ UNCHANGED <<pos, marks, ret, failed, console, test>>
        BY <1>1, <2>1, <2>4, <3>1, Exits DEF Call117s
      <3> QED BY <1>1, <2>1, <2>4, <3>2 DEF Call117s, Single, Shown, Threads
    <2> Len(P) = 3
      BY <1>3, Call117Thread
    <2> QED BY <1>1, <2>1, <2>2, <2>3, <2>4
  <1>4. CASE t = 0
    <2> Len(P) = 17
      BY <1>4, Call117Programs
    <2>1. pos[0] \in 1..17
      BY <1>1, <1>4
    <2>2. CASE pos[0] = 1
      <3>1. /\ P[1].op = "117" /\ P[1].arg = 1
             /\ P[1].mode = "OK"
        BY <1>4, Call117Programs
      <3>2. marks[1] = {}
        BY <2>2 DEF Call117s, CallMarks
      <3>3. /\ Step(0, 2, console) /\ UNCHANGED <<thread, ret[1]>>
             /\ marks'[1] = {"117"}
        BY <1>1, <1>4, <2>2, <3>1, <3>2, Calls117, Passes DEF Returns, Threads
      <3> QED BY <1>1, <1>4, <2>2, <3>3, <1>2 DEF Call117s, Step, Single, CallMarks, One, Threads,
           Shown, CallShown
    <2>3. CASE pos[0] = 2
      <3>1. /\ P[2].op = "lock" /\ P[2].arg = 1
             /\ P[2].mode = "print"
        BY <1>4, Call117Programs
      <3>2. marks[1] = {"117"}
        BY <2>3 DEF Call117s, CallMarks
      <3>3. /\ Step(0, 3, Append(console, "EBUSY")) /\ UNCHANGED <<thread, ret[1]>>
             /\ marks'[1] = {}
        BY <1>1, <1>4, <2>3, <3>1, <3>2, Locks, Tells DEF Returns, Threads
      <3>4. Shown(1)'
        BY <2>3, <3>3, <1>2, Call117Text, Says DEF Call117s, CallShown, One
      <3> QED BY <1>1, <1>4, <2>3, <3>3, <3>4, <1>2 DEF Call117s, Step, Single, CallMarks, One,
        Threads, CallShown
    <2>4. CASE pos[0] = 3
      <3>1. /\ P[3].op = "trylock" /\ P[3].arg = 1
             /\ P[3].mode = "print"
        BY <1>4, Call117Programs
      <3>2. marks[1] = {}
        BY <2>4 DEF Call117s, CallMarks
      <3>3. /\ Step(0, 4, Append(console, "EBUSY")) /\ UNCHANGED <<thread, ret[1]>>
             /\ marks'[1] = {}
        BY <1>1, <1>4, <2>4, <3>1, <3>2, TriesLock, Tells DEF Returns, Threads
      <3>4. Shown(2)'
        BY <2>4, <3>3, <1>2, Call117Text, Says DEF Call117s, CallShown, One
      <3> QED BY <1>1, <1>4, <2>4, <3>3, <3>4, <1>2 DEF Call117s, Step, Single, CallMarks, One,
        Threads, CallShown
    <2>5. CASE pos[0] = 4
      <3>1. /\ P[4].op = "117" /\ P[4].arg = 1
             /\ P[4].mode = "OK"
        BY <1>4, Call117Programs
      <3>2. marks[1] = {}
        BY <2>5 DEF Call117s, CallMarks
      <3>3. /\ Step(0, 5, console) /\ UNCHANGED <<thread, ret[1]>>
             /\ marks'[1] = {"117"}
        BY <1>1, <1>4, <2>5, <3>1, <3>2, Calls117, Passes DEF Returns, Threads
      <3> QED BY <1>1, <1>4, <2>5, <3>3, <1>2 DEF Call117s, Step, Single, CallMarks, One, Threads,
           Shown, CallShown
    <2>6. CASE pos[0] = 5
      <3>1. /\ P[5].op = "unlock" /\ P[5].arg = 1
             /\ P[5].mode = "OK"
        BY <1>4, Call117Programs
      <3>2. marks[1] = {"117"}
        BY <2>6 DEF Call117s, CallMarks
      <3>3. /\ Step(0, 6, console) /\ UNCHANGED <<thread, ret[1]>>
             /\ marks'[1] = {"117", "unlocked"}
        BY <1>1, <1>4, <2>6, <3>1, <3>2, Unlocks, Passes DEF Returns, Threads
      <3> QED BY <1>1, <1>4, <2>6, <3>3, <1>2 DEF Call117s, Step, Single, CallMarks, One, Threads,
           Shown, CallShown
    <2>7. CASE pos[0] = 6
      <3>1. /\ P[6].op = "lock" /\ P[6].arg = 1
             /\ P[6].mode = "print"
        BY <1>4, Call117Programs
      <3>2. marks[1] = {"117", "unlocked"}
        BY <2>7 DEF Call117s, CallMarks
      <3>3. /\ Step(0, 7, Append(console, "OK")) /\ UNCHANGED <<thread, ret[1]>>
             /\ marks'[1] = {}
        BY <1>1, <1>4, <2>7, <3>1, <3>2, Locks, Tells DEF Returns, Threads
      <3>4. Shown(3)'
        BY <2>7, <3>3, <1>2, Call117Text, Says DEF Call117s, CallShown, One
      <3> QED BY <1>1, <1>4, <2>7, <3>3, <3>4, <1>2 DEF Call117s, Step, Single, CallMarks, One,
        Threads, CallShown
    <2>8. CASE pos[0] = 7
      <3>1. /\ P[7].op = "unlock" /\ P[7].arg = 1
             /\ P[7].mode = "OK"
        BY <1>4, Call117Programs
      <3>2. marks[1] = {}
        BY <2>8 DEF Call117s, CallMarks
      <3>3. /\ Step(0, 8, console) /\ UNCHANGED <<thread, ret[1]>>
             /\ marks'[1] = {"unlocked"}
        BY <1>1, <1>4, <2>8, <3>1, <3>2, Unlocks, Passes DEF Returns, Threads
      <3> QED BY <1>1, <1>4, <2>8, <3>3, <1>2 DEF Call117s, Step, Single, CallMarks, One, Threads,
           Shown, CallShown
    <2>9. CASE pos[0] = 8
      <3>1. /\ P[8].op = "117" /\ P[8].arg = 1
             /\ P[8].mode = "OK"
        BY <1>4, Call117Programs
      <3>2. marks[1] = {"unlocked"}
        BY <2>9 DEF Call117s, CallMarks
      <3>3. /\ Step(0, 9, console) /\ UNCHANGED <<thread, ret[1]>>
             /\ marks'[1] = {"117", "unlocked"}
        BY <1>1, <1>4, <2>9, <3>1, <3>2, Calls117, Passes DEF Returns, Threads
      <3> QED BY <1>1, <1>4, <2>9, <3>3, <1>2 DEF Call117s, Step, Single, CallMarks, One, Threads,
           Shown, CallShown
    <2>10. CASE pos[0] = 9
      <3>1. /\ P[9].op = "lock" /\ P[9].arg = 1
             /\ P[9].mode = "print"
        BY <1>4, Call117Programs
      <3>2. marks[1] = {"117", "unlocked"}
        BY <2>10 DEF Call117s, CallMarks
      <3>3. /\ Step(0, 10, Append(console, "OK")) /\ UNCHANGED <<thread, ret[1]>>
             /\ marks'[1] = {}
        BY <1>1, <1>4, <2>10, <3>1, <3>2, Locks, Tells DEF Returns, Threads
      <3>4. Shown(4)'
        BY <2>10, <3>3, <1>2, Call117Text, Says DEF Call117s, CallShown, One
      <3> QED BY <1>1, <1>4, <2>10, <3>3, <3>4, <1>2 DEF Call117s, Step, Single, CallMarks, One,
        Threads, CallShown
    <2>11. CASE pos[0] = 10
      <3>1. /\ P[10].op = "unlock" /\ P[10].arg = 1
             /\ P[10].mode = "OK"
        BY <1>4, Call117Programs
      <3>2. marks[1] = {}
        BY <2>11 DEF Call117s, CallMarks
      <3>3. /\ Step(0, 11, console) /\ UNCHANGED <<thread, ret[1]>>
             /\ marks'[1] = {"unlocked"}
        BY <1>1, <1>4, <2>11, <3>1, <3>2, Unlocks, Passes DEF Returns, Threads
      <3> QED BY <1>1, <1>4, <2>11, <3>3, <1>2 DEF Call117s, Step, Single, CallMarks, One,
        Threads, Shown, CallShown
    <2>12. CASE pos[0] = 11
      <3>1. /\ P[11].op = "117" /\ P[11].arg = 1
             /\ P[11].mode = "OK"
        BY <1>4, Call117Programs
      <3>2. marks[1] = {"unlocked"}
        BY <2>12 DEF Call117s, CallMarks
      <3>3. /\ Step(0, 12, console) /\ UNCHANGED <<thread, ret[1]>>
             /\ marks'[1] = {"117", "unlocked"}
        BY <1>1, <1>4, <2>12, <3>1, <3>2, Calls117, Passes DEF Returns, Threads
      <3> QED BY <1>1, <1>4, <2>12, <3>3, <1>2 DEF Call117s, Step, Single, CallMarks, One,
        Threads, Shown, CallShown
    <2>13. CASE pos[0] = 12
      <3>1. /\ P[12].op = "trylock" /\ P[12].arg = 1
             /\ P[12].mode = "print"
        BY <1>4, Call117Programs
      <3>2. marks[1] = {"117", "unlocked"}
        BY <2>13 DEF Call117s, CallMarks
      <3>3. /\ Step(0, 13, Append(console, "OK")) /\ UNCHANGED <<thread, ret[1]>>
             /\ marks'[1] = {}
        BY <1>1, <1>4, <2>13, <3>1, <3>2, TriesLock, Tells DEF Returns, Threads
      <3>4. Shown(5)'
        BY <2>13, <3>3, <1>2, Call117Text, Says DEF Call117s, CallShown, One
      <3> QED BY <1>1, <1>4, <2>13, <3>3, <3>4, <1>2 DEF Call117s, Step, Single, CallMarks, One,
           Threads, CallShown
    <2>14. CASE pos[0] = 13
      <3>1. /\ P[13].op = "117" /\ P[13].arg = 1
             /\ P[13].mode = "OK"
        BY <1>4, Call117Programs
      <3>2. marks[1] = {}
        BY <2>14 DEF Call117s, CallMarks
      <3>3. /\ Step(0, 14, console) /\ UNCHANGED <<thread, ret[1]>>
             /\ marks'[1] = {"117"}
        BY <1>1, <1>4, <2>14, <3>1, <3>2, Calls117, Passes DEF Returns, Threads
      <3> QED BY <1>1, <1>4, <2>14, <3>3, <1>2 DEF Call117s, Step, Single, CallMarks, One,
        Threads, Shown, CallShown
    <2>15. CASE pos[0] = 14
      <3>1. /\ P[14].op = "trylock" /\ P[14].arg = 1
             /\ P[14].mode = "print"
        BY <1>4, Call117Programs
      <3>2. marks[1] = {"117"}
        BY <2>15 DEF Call117s, CallMarks
      <3>3. /\ Step(0, 15, Append(console, "EBUSY")) /\ UNCHANGED <<thread, ret[1]>>
             /\ "unlocked" \notin marks'[1]
        BY <1>1, <1>4, <2>15, <3>1, <3>2, TriesLock, Tells DEF Returns, Threads
      <3>4. Shown(6)'
        BY <2>15, <3>3, <1>2, Call117Text, Says DEF Call117s, CallShown, One
      <3> QED BY <1>1, <1>4, <2>15, <3>3, <3>4, <1>2 DEF Call117s, Step, Single, CallMarks, One,
           Threads, CallShown
    <2>16. CASE pos[0] = 15
      <3>1. P[15].op = "thread_create" /\ P[15].arg = 1 /\ P[15].mode = "OK"
        BY <1>4, Call117Programs
      <3>2. /\ Step(0, 16, console) /\ UNCHANGED <<ret[1], marks>>
             /\ thread'[1] = "runs" /\ \A u \in Threads \ {1} : thread'[u] = thread[u]
        BY <1>1, <1>4, <2>16, <3>1, Creates, Passes DEF Returns, Threads
      <3> QED BY <1>1, <1>4, <2>16, <3>2, <1>2 DEF Call117s, Step, Single, CallMarks, One,
        Threads, Shown, CallShown
    <2>17. CASE pos[0] = 16
      <3>1. P[16].op = "117" /\ P[16].arg = 1 /\ P[16].mode = "ignore"
        BY <1>4, Call117Programs
      <3>2. /\ Step(0, 17, console) /\ UNCHANGED <<thread, ret[1]>>
             /\ "unlocked" \notin marks'[1]
        BY <1>1, <1>4, <2>17, <3>1, Calls117, Passes DEF Returns, Threads, Call117s
      <3> QED BY <1>1, <1>4, <2>17, <3>2, <1>2 DEF Call117s, Step, Single, CallMarks, One,
        Threads, Shown, CallShown
    <2>18. CASE pos[0] = 17
      <3>1. P[17].op = "join" /\ P[17].arg = 1 /\ P[17].mode = "EFAULT"
        BY <1>4, Call117Programs
      <3>2. /\ Step(0, 18, console) /\ UNCHANGED <<thread, ret[1], marks>>
             /\ thread[1] = "ended"
        BY <1>1, <1>4, <2>18, <3>1, JoinsEnded, Passes DEF lv2, Returns, Threads
      <3> QED BY <1>1, <1>4, <2>18, <3>2, <1>2 DEF Call117s, Step, Single, CallMarks, One,
        Threads, Shown, CallShown
    <2> QED BY <2>2, <2>3, <2>4, <2>5, <2>6, <2>7, <2>8, <2>9, <2>10, <2>11, <2>12, <2>13,
      <2>14, <2>15, <2>16, <2>17, <2>18, <2>1
  <1> QED BY <1>3, <1>4

\* The instructions of lwcond_wait_timeout.
LEMMA WaitsMain ==
  ASSUME test = "lwcond_wait_timeout"
  PROVE  LET P == Program(0) IN
         /\ Len(P) = 6
         /\ \A n \in {1, 3} : P[n].op = "increment"
         /\ P[2].op = "thread_create" /\ P[2].arg = 1 /\ P[2].mode = "ignore"
         /\ P[4].op = "thread_create" /\ P[4].arg = 2 /\ P[4].mode = "ignore"
         /\ P[5].op = "if" /\ P[5].condition = "sig_is_0" /\ P[5].arg = 5
         /\ P[6].op = "print" /\ P[6].arg = "sample_finished"
BY DEF Program, Programs, lwcond_wait_timeout, While, If, Finished, I, On

\* Its threads wait, try the lock, and show the result before they count themselves off.
LEMMA WaitsThread ==
  ASSUME test = "lwcond_wait_timeout", NEW t \in Threads \ {0}
  PROVE  LET P == Program(t) IN
         /\ Len(P) = 7
         /\ P[1].op = "lwcond_wait" /\ P[1].arg = 0 /\ P[1].mode = "ignore"
         /\ P[2].op = "trylock" /\ P[2].arg = 0 /\ P[2].mode = "ignore"
         /\ P[3].op = "if" /\ P[3].condition = "ok" /\ P[3].arg = 5
         /\ P[4].op = "unlock" /\ P[4].arg = 0 /\ P[4].mode = "ignore"
         /\ P[5].op = "print_ret" /\ P[6].op = "decrement" /\ P[7].op = "exit"
  <1>1. Program(t) = lwcond_wait_timeout.thread
    BY DEF Program, Programs
  <1> QED BY <1>1 DEF lwcond_wait_timeout, threadWait, test_lock, If, Exit, I, On

\* The lines of lwcond_wait_timeout.
LEMMA WaitsText ==
  LET G(n, line) == Grows("lwcond_wait_timeout", n, line) IN
  G(1, "OK") /\ G(2, "OK") /\ G(3, "sample_finished")
  <1> DEFINE lines == <<"OK", "OK", "sample_finished">>
  <1>1. Expected["lwcond_wait_timeout"] = {lines}
    BY DEF Expected
  <1>2. lines[1] = "OK" /\ lines[2] = "OK" /\ lines[3] = "sample_finished"
    OBVIOUS
  <1> HIDE DEF lines
  <1>3. \A n \in Nat \ {0} : Grows("lwcond_wait_timeout", n, lines[n])
    BY <1>1, OnlyConsole
  <1> QED BY <1>2, <1>3

\* The waiters print in either order, and main when both have counted themselves off.
LEMMA WaitsKept ==
  ASSUME KInv, Waits, NEW t \in Threads, Runs(t) PROVE Waits'
  <1> SUFFICES ASSUME test = "lwcond_wait_timeout" PROVE Waits'
    BY AtInstruction DEF Waits
  <1> DEFINE P == Program(t)
  <1>1. /\ thread[t] = "runs" /\ test' = test /\ Typed /\ ~failed
        /\ pos[t] \in 1..Len(P) /\ Instruction(t) = P[pos[t]]
        /\ pos \in [Threads -> Nat] /\ thread[0] = "runs"
    BY AtInstruction DEF Waits
  <1>2. CASE t # 0
    <2>1. t \in 1..2 /\ t \in Mutexes
      <3>1. thread[3] = "none" /\ thread[4] = "none"
        BY DEF KInv, Counted
      <3>2. t = 1 \/ t = 2 \/ t = 3 \/ t = 4
        BY <1>2 DEF Threads
      <3> QED BY <1>1, <3>1, <3>2 DEF Mutexes
    <2> DEFINE u == 3 - t
    <2>2. u \in 1..2 /\ u \in Mutexes \ {t} /\ u \in Threads \ {t} /\ 0 \in Threads \ {t}
      BY <2>1 DEF Mutexes, Threads
    <2>3. pos[t] # 7 => ~(pos[0] > 5)
      BY <2>1 DEF Waits
    <2>4. Shown(One(pos[t] > 5) + One(pos[u] > 5) + One(pos[0] > 6))
      BY <2>1, <2>2 DEF Waits, One
    <2> DEFINE Fine(v) == /\ pos[v] = 2 => "unlocked" \in marks[v]
                          /\ pos[v] \in 3..5 => ret[v] = "OK"
                          /\ pos[0] > 5 => pos[v] = 7
    <2>5. Fine(t) /\ Fine(u)
      BY <2>1, <2>2 DEF Waits
    <2>6. ASSUME thread'[0] = "runs", test' = test, Fine(t)', Fine(u)',
                 Shown(One(pos[t] > 5) + One(pos[u] > 5) + One(pos[0] > 6))'
          PROVE  Waits'
      BY <2>1, <2>6 DEF Waits, One
    <2> HIDE DEF u
    <2>7. CASE pos[t] = 1
      <3>1. P[1].op = "lwcond_wait" /\ P[1].arg = 0 /\ P[1].mode = "ignore"
        BY <1>2, WaitsThread
      <3>2. /\ Step(t, 2, console) /\ UNCHANGED <<thread, ret[u], marks[u]>>
            /\ "unlocked" \in marks'[t]
        BY <1>1, <2>1, <2>2, <2>7, <3>1, CondWaits, Passes DEF Returns
      <3> QED BY <1>1, <2>2, <2>3, <2>4, <2>5, <2>6, <2>7, <3>2 DEF Step, Shown, One
    <2>8. CASE pos[t] = 2
      <3>1. P[2].op = "trylock" /\ P[2].arg = 0 /\ P[2].mode = "ignore"
        BY <1>2, WaitsThread
      <3>2. /\ Step(t, 3, console) /\ UNCHANGED <<thread, ret[u], marks[u]>>
            /\ ret'[t] = "OK"
        BY <1>1, <2>1, <2>2, <2>5, <2>8, <3>1, TriesLock, Passes DEF Returns
      <3> QED BY <1>1, <2>2, <2>3, <2>4, <2>5, <2>6, <2>8, <3>2 DEF Step, Shown, One
    <2>9. CASE pos[t] = 3
      <3>1. P[3].op = "if" /\ P[3].condition = "ok" /\ P[3].arg = 5
        BY <1>2, WaitsThread
      <3>2. Step(t, 4, console) /\ UNCHANGED <<thread, ret, marks>>
        BY <1>1, <2>1, <2>5, <2>9, <3>1, Branches, HoldsIs DEF Moves, Step, lv2
      <3> QED BY <1>1, <2>2, <2>3, <2>4, <2>5, <2>6, <2>9, <3>2 DEF Step, Shown, One
    <2>10. CASE pos[t] = 4
      <3>1. P[4].op = "unlock" /\ P[4].arg = 0 /\ P[4].mode = "ignore"
        BY <1>2, WaitsThread
      <3>2. Step(t, 5, console) /\ UNCHANGED <<thread, ret[u], marks[u]>> /\ ret'[t] = "OK"
        BY <1>1, <2>1, <2>2, <2>10, <3>1, Unlocks, Passes DEF Returns
      <3> QED BY <1>1, <2>2, <2>3, <2>4, <2>5, <2>6, <2>10, <3>2 DEF Step, Shown, One
    <2>11. CASE pos[t] = 5
      <3>1. P[5].op = "print_ret"
        BY <1>2, WaitsThread
      <3>2. Step(t, 6, Append(console, "OK")) /\ UNCHANGED <<thread, ret, marks>>
        BY <1>1, <2>1, <2>5, <2>11, <3>1, Lines DEF Moves, Step, lv2
      <3>3. pos'[0] = pos[0] /\ ~(pos[0] > 6) /\ ~(pos[0] > 5) /\ pos'[u] = pos[u] /\ pos'[t] = 6
        BY <1>1, <2>2, <2>3, <2>11, <3>2 DEF Step
      <3>4. Shown(1 + One(pos[u] > 5))'
        <4>1. CASE pos[u] > 5
          <5>1. Shown(1)
            BY <2>4, <2>11, <3>3, <4>1 DEF One
          <5>2. Shown(2)'
            BY <3>2, <5>1, WaitsText, Says
          <5> QED BY <3>3, <4>1, <5>2 DEF One
        <4>2. CASE ~(pos[u] > 5)
          <5>1. Shown(0)
            BY <2>4, <2>11, <3>3, <4>2 DEF One
          <5>2. Shown(1)'
            BY <3>2, <5>1, WaitsText, Says
          <5> QED BY <3>3, <4>2, <5>2 DEF One
        <4> QED BY <4>1, <4>2
      <3> QED BY <1>1, <2>2, <2>3, <2>5, <2>6, <2>11, <3>2, <3>3, <3>4 DEF Step, One
    <2>12. CASE pos[t] = 6
      <3>1. P[6].op = "decrement"
        BY <1>2, WaitsThread
      <3>2. Step(t, 7, console) /\ UNCHANGED <<thread, ret, marks>>
        BY <1>1, <2>1, <2>12, <3>1, Writes DEF Moves, Step, lv2
      <3> QED BY <1>1, <2>2, <2>3, <2>4, <2>5, <2>6, <2>12, <3>2 DEF Step, Shown, One
    <2>13. CASE pos[t] = 7
      <3>1. P[7].op = "exit"
        BY <1>2, WaitsThread
      <3>2. UNCHANGED <<thread[0], pos, ret, marks, console, failed, test>>
        BY <1>1, <2>1, <2>2, <2>13, <3>1, Exits
      <3> QED BY <2>4, <2>5, <2>6, <3>2, <1>1 DEF Shown
    <2> Len(P) = 7
      BY <1>2, WaitsThread
    <2> QED BY <1>1, <2>7, <2>8, <2>9, <2>10, <2>11, <2>12, <2>13
  <1>3. CASE t = 0
    <2>1. 1 \in Threads \ {0} /\ 2 \in Threads \ {0}
      BY DEF Threads
    <2>2. ASSUME NEW n \in 2..5, Step(0, n, console), UNCHANGED <<thread[0], marks, ret>>,
                 pos[0] < 6, pos[0] \in Nat
          PROVE  Waits'
      <3>1. /\ pos'[0] = n /\ pos'[1] = pos[1] /\ pos'[2] = pos[2]
            /\ console' = console /\ test' = test /\ ~failed'
        BY <1>1, <2>1, <2>2 DEF Step
      <3>2. Shown(One(pos[1] > 5) + One(pos[2] > 5) + One(pos[0] > 6))'
        BY <1>1, <2>2, <3>1 DEF Waits, Shown, One
      <3> QED BY <1>1, <2>2, <3>1, <3>2 DEF Waits
    <2>3. CASE pos[0] \in {1, 3}
      <3>1. \A n \in {1, 3} : P[n].op = "increment"
        BY <1>3, WaitsMain
      <3>2. Step(0, pos[0] + 1, console) /\ UNCHANGED <<thread[0], marks, ret>>
        BY <1>1, <1>3, <2>3, <3>1, Writes DEF Moves, Step, lv2
      <3> QED BY <2>2, <2>3, <3>2
    <2>4. CASE pos[0] \in {2, 4}
      <3>1. \A n \in {2, 4} : P[n].op = "thread_create" /\ P[n].arg \in 1..2 /\ P[n].mode = "ignore"
        BY <1>3, WaitsMain
      <3>2. Step(0, pos[0] + 1, console) /\ UNCHANGED <<thread[0], marks, ret[1], ret[2]>>
        BY <1>1, <1>3, <2>1, <2>4, <3>1, Creates, Passes DEF Returns, Threads
      <3>3. /\ pos'[1] = pos[1] /\ pos'[2] = pos[2] /\ pos'[0] = pos[0] + 1
            /\ test' = test /\ console' = console /\ ~failed'
        BY <2>1, <3>2 DEF Step
      <3>4. Shown(One(pos[1] > 5) + One(pos[2] > 5) + One(pos[0] > 6))'
        BY <2>4, <3>3 DEF Waits, Shown, One
      <3> QED BY <1>1, <2>4, <3>2, <3>3, <3>4 DEF Waits
    <2>5. CASE pos[0] = 5
      <3>1. P[5].op = "if" /\ P[5].condition = "sig_is_0" /\ P[5].arg = 5
        BY <1>3, WaitsMain
      <3>2. UNCHANGED <<thread, marks, ret>> /\ Step(0, IF signal = 0 THEN 6 ELSE 5, console)
        BY <1>1, <1>3, <2>5, <3>1, Branches, HoldsIs DEF Moves, Step, lv2
      <3>3. CASE signal # 0
        BY <2>2, <2>5, <3>2, <3>3
      <3>4. CASE signal = 0
        <4>1. pos[1] > 6 /\ pos[2] > 6
          BY <2>5, <3>4 DEF KInv, Counted, Less
        <4>2. pos[1] \in 1..7 /\ pos[2] \in 1..7
          BY <2>1, WaitsThread DEF KInv, Positions
        <4>3. pos[1] = 7 /\ pos[2] = 7
          BY <4>1, <4>2
        <4> QED BY <1>1, <2>1, <2>5, <3>2, <3>4, <4>3 DEF Waits, Step, Shown, One
      <3> QED BY <3>3, <3>4
    <2>6. CASE pos[0] = 6
      <3>1. P[6].op = "print" /\ P[6].arg = "sample_finished"
        BY <1>3, WaitsMain
      <3>2. UNCHANGED <<thread, marks, ret>> /\ Step(0, 7, Append(console, "sample_finished"))
        BY <1>1, <1>3, <2>6, <3>1, Lines DEF Moves, Step, lv2
      <3>3. Shown(2)
        BY <2>6 DEF Waits, One
      <3>4. Shown(3)'
        BY <3>2, <3>3, WaitsText, Says
      <3>5. pos[1] = 7 /\ pos[2] = 7
        BY <2>6 DEF Waits
      <3> QED BY <1>1, <2>1, <2>6, <3>2, <3>4, <3>5 DEF Waits, Step, One
    <2> Len(P) = 6
      BY <1>3, WaitsMain
    <2>7. pos[0] \in 1..6
      BY <1>1, <1>3
    <2> QED BY <2>3, <2>4, <2>5, <2>6, <2>7
  <1> QED BY <1>2, <1>3

\* The instructions of main_thread_joinability.
LEMMA JoinabilityPrograms ==
  ASSUME test = "main_thread_joinability"
  PROVE  LET P == Program(0) IN
         /\ Len(P) = 3 /\ P[1].op = "thread_create" /\ P[1].arg = 1 /\ P[1].mode = "ignore"
         /\ P[2].op = "if" /\ P[2].condition = "exit" /\ P[2].arg = 2
         /\ P[3].op = "print" /\ P[3].arg = "sample_finished"
BY DEF Program, Programs, main_thread_joinability, While, If, Finished, On

\* Its thread joins main and shows the result.
LEMMA JoinabilityThread ==
  ASSUME test = "main_thread_joinability", NEW t \in Threads \ {0}
  PROVE  LET P == Program(t) IN
         /\ Len(P) = 4 /\ P[1].op = "join" /\ P[1].arg = 0 /\ P[1].mode = "ignore"
         /\ P[2].op = "print_ret" /\ P[3].op = "store" /\ P[3].arg = 1 /\ P[4].op = "exit"
  <1>1. Program(t) = main_thread_joinability.thread
    BY DEF Program, Programs
  <1> QED BY <1>1 DEF main_thread_joinability, Store, Exit, I, On

\* The lines of main_thread_joinability.
LEMMA JoinabilityText ==
  /\ Grows("main_thread_joinability", 1, "EINVAL")
  /\ Grows("main_thread_joinability", 2, "sample_finished")
  <1> DEFINE lines == <<"EINVAL", "sample_finished">>
  <1>1. Expected["main_thread_joinability"] = {lines}
    BY DEF Expected
  <1>2. lines[1] = "EINVAL" /\ lines[2] = "sample_finished"
    OBVIOUS
  <1> HIDE DEF lines
  <1>3. \A n \in Nat \ {0} : Grows("main_thread_joinability", n, lines[n])
    BY <1>1, OnlyConsole
  <1> QED BY <1>2, <1>3

\* The thread prints that main cannot be joined before it lets main go on.
LEMMA JoinabilityKept ==
  ASSUME KInv, Joinability, NEW t \in Threads, Runs(t) PROVE Joinability'
  <1> SUFFICES ASSUME test = "main_thread_joinability" PROVE Joinability'
    BY AtInstruction DEF Joinability
  <1> DEFINE P == Program(t)
  <1>1. /\ thread[t] = "runs" /\ test' = test /\ Typed /\ ~failed
        /\ pos[t] \in 1..Len(P) /\ Instruction(t) = P[pos[t]]
        /\ pos \in [Threads -> Nat] /\ 1 \in Threads \ {0}
    <2>1. 1 \in Threads \ {0}
      BY DEF Threads
    <2> QED BY <2>1, AtInstruction
  <1>2. CASE t # 0
    <2>1. t = 1 /\ 0 \in Threads \ {1} /\ thread[0] = "runs"
      BY <1>1, <1>2, OneBeside DEF Joinability, Single, Threads
    <2>2. pos[1] \in 1..3 => pos[0] \in 0..2 /\ signal # 1
      BY <1>1, <2>1 DEF Joinability
    <2>3. CASE pos[1] = 1
      <3>1. P[1].op = "join" /\ P[1].arg = 0 /\ P[1].mode = "ignore"
        BY <1>2, JoinabilityThread
      <3>2. Step(1, 2, console) /\ UNCHANGED <<thread, signal>> /\ ret'[1] = "EINVAL"
        BY <1>1, <2>1, <2>3, <3>1, JoinsEnded, Passes DEF Returns, lv2
      <3> QED BY <2>1, <2>2, <2>3, <3>2 DEF Joinability, Single, Shown, Step, One
    <2>4. CASE pos[1] = 2
      <3>1. P[2].op = "print_ret"
        BY <1>2, JoinabilityThread
      <3>2. Step(1, 3, Append(console, "EINVAL")) /\ UNCHANGED <<thread, signal>>
        BY <1>1, <2>1, <2>4, <3>1, Lines DEF Moves, Step, lv2, Joinability
      <3>3. Shown(1)'
        BY <2>2, <2>4, <3>2, JoinabilityText, Says DEF Joinability, One
      <3> QED BY <2>1, <2>2, <2>4, <3>2, <3>3 DEF Joinability, Single, Step, One
    <2>5. CASE pos[1] = 3
      <3>1. P[3].op = "store" /\ P[3].arg = 1
        BY <1>2, JoinabilityThread
      <3>2. Step(1, 4, console) /\ UNCHANGED thread
        BY <1>1, <2>1, <2>5, <3>1, Writes DEF Moves, Step, lv2
      <3> QED BY <2>1, <2>2, <2>5, <3>2 DEF Joinability, Single, Shown, Step, One
    <2>6. CASE pos[1] = 4
      <3>1. P[4].op = "exit"
        BY <1>2, JoinabilityThread
      <3>2. /\ \A u \in Threads \ {1} : thread'[u] = thread[u]
            /\ UNCHANGED <<pos, ret, signal, failed, console, test>>
        BY <1>1, <2>1, <2>6, <3>1, Exits
      <3> QED BY <2>1, <2>6, <3>2 DEF Joinability, Single, Shown, Threads
    <2> Len(P) = 4
      BY <1>2, JoinabilityThread
    <2> QED BY <1>1, <2>1, <2>3, <2>4, <2>5, <2>6
  <1>3. CASE t = 0
    <2>1. CASE pos[0] = 1
      <3>1. P[1].op = "thread_create" /\ P[1].arg = 1 /\ P[1].mode = "ignore"
        BY <1>3, JoinabilityPrograms
      <3>2. /\ Step(0, 2, console) /\ UNCHANGED <<signal, ret[1]>>
            /\ \A u \in Threads \ {1} : thread'[u] = thread[u]
        BY <1>1, <1>3, <2>1, <3>1, Creates, Passes DEF Returns, Threads
      <3> QED BY <1>1, <2>1, <3>2 DEF Joinability, Single, Shown, Step, One, Threads
    <2>2. CASE pos[0] = 2
      <3>1. P[2].op = "if" /\ P[2].condition = "exit" /\ P[2].arg = 2
        BY <1>3, JoinabilityPrograms
      <3>2. /\ Step(0, IF signal = 1 THEN 3 ELSE 2, console)
            /\ UNCHANGED <<thread, signal, ret>>
        BY <1>1, <1>3, <2>2, <3>1, Branches, HoldsIs DEF Moves, Step, lv2
      <3> QED BY <1>1, <2>2, <3>2 DEF Joinability, Single, Shown, Step, One
    <2>3. CASE pos[0] = 3
      <3>1. P[3].op = "print" /\ P[3].arg = "sample_finished"
        BY <1>3, JoinabilityPrograms
      <3>2. /\ Step(0, 4, Append(console, "sample_finished"))
            /\ UNCHANGED <<thread, signal, ret>>
        BY <1>1, <1>3, <2>3, <3>1, Lines DEF Moves, Step, lv2
      <3>3. Shown(2)'
        BY <1>1, <2>3, <3>2, JoinabilityText, Says DEF Joinability, One
      <3> QED BY <1>1, <2>3, <3>2, <3>3 DEF Joinability, Single, Step, One
    <2> Len(P) = 3
      BY <1>3, JoinabilityPrograms
    <2> QED BY <1>1, <1>3, <2>1, <2>2, <2>3
  <1> QED BY <1>2, <1>3

\* The instructions of set_priority.
LEMMA PriorityPrograms ==
  ASSUME test = "set_priority"
  PROVE  LET P == Program(0) IN
         /\ Len(P) = 11
         /\ \A n \in 1..4 : P[n].op = "thread_create" /\ P[n].arg = n /\ P[n].mode = "OK"
         /\ \A n \in 5..6 : P[n].op = "store"
         /\ \A n \in 7..10 : P[n].op = "join" /\ P[n].arg = n - 6 /\ P[n].mode = "EFAULT"
         /\ P[11].op = "print" /\ P[11].arg = "counts"
BY DEF Program, Programs, set_priority, Create, Store, Join, On, ENSURE_OK, ENSURE_VAL

\* Its threads show nothing.
LEMMA PriorityThread ==
  ASSUME test = "set_priority", NEW t \in Threads \ {0}
  PROVE  LET P == Program(t) IN
         /\ Len(P) = 7
         /\ \A n \in 1..7 : /\ P[n].op \in {"if", "set_priority", "goto", "exit"}
                            /\ P[n].op = "set_priority" => P[n].mode = "ignore"
  <1>1. Program(t) = Waiter
    BY DEF Program, Programs, set_priority
  <1> QED BY <1>1 DEF Waiter, SetPriorities, While, If, Goto, Exit, I, On

\* Main prints the counts last.
LEMMA PrioritiesKept ==
  ASSUME KInv, Priorities, NEW t \in Threads, Runs(t) PROVE Priorities'
  <1> SUFFICES ASSUME test = "set_priority" PROVE Priorities'
    BY AtInstruction DEF Priorities
  <1> DEFINE P == Program(t)
  <1>1. /\ thread[t] = "runs" /\ test' = test /\ Typed /\ ~failed
        /\ pos[t] \in 1..Len(P) /\ Instruction(t) = P[pos[t]]
        /\ pos \in [Threads -> Nat]
    BY AtInstruction
  <1>2. CASE t # 0
    <2>1. /\ P[pos[t]].op \in {"if", "set_priority", "goto", "exit"}
          /\ P[pos[t]].op = "set_priority" => P[pos[t]].mode = "ignore"
      BY <1>1, <1>2, PriorityThread
    <2>2. 0 \in Threads \ {t}
      BY <1>2 DEF Threads
    <2>3. UNCHANGED <<pos[0], failed, console>>
      <3>1. CASE P[pos[t]].op = "set_priority"
        BY <1>1, <2>1, <2>2, <3>1, Sets, Passes DEF Step, Results
      <3>2. CASE P[pos[t]].op # "set_priority"
        BY <1>1, <2>1, <2>2, <3>2, Quiet
      <3> QED BY <3>1, <3>2
    <2> QED BY <1>1, <2>3 DEF Priorities, Shown
  <1>3. CASE t = 0
    <2>1. ASSUME NEW n \in 2..11, Step(0, n, console), pos[0] \in 1..10
          PROVE  Priorities'
      <3>1. ~(pos[0] > 11) /\ ~(pos'[0] > 11) /\ console' = console /\ ~failed'
        BY <2>1 DEF Step
      <3> QED BY <1>1, <3>1 DEF Priorities, Shown, One
    <2>2. pos[0] \in 1..11
      BY <1>1, <1>3, PriorityPrograms
    <2>3. CASE pos[0] \in 1..4
      <3>1. P[pos[0]].op = "thread_create" /\ P[pos[0]].arg = pos[0] /\ P[pos[0]].mode = "OK"
        BY <1>3, <2>3, PriorityPrograms
      <3>2. Step(0, pos[0] + 1, console)
        BY <1>1, <1>3, <2>3, <3>1, Creates, Passes DEF Threads
      <3> QED BY <2>1, <2>3, <3>2
    <2>4. CASE pos[0] \in 5..6
      <3>1. P[pos[0]].op = "store"
        BY <1>3, <2>4, PriorityPrograms
      <3>2. Step(0, pos[0] + 1, console)
        BY <1>1, <1>3, <2>4, <3>1, Writes DEF Moves, Step
      <3> QED BY <2>1, <2>4, <3>2
    <2>5. CASE pos[0] \in 7..10
      <3>1. /\ P[pos[0]].op = "join" /\ P[pos[0]].arg # 0 /\ P[pos[0]].mode = "EFAULT"
        BY <1>3, <2>5, PriorityPrograms
      <3>2. Step(0, pos[0] + 1, console)
        BY <1>1, <1>3, <2>5, <3>1, JoinsEnded, Passes
      <3> QED BY <2>1, <2>5, <3>2
    <2>6. CASE pos[0] = 11
      <3>1. P[11].op = "print" /\ P[11].arg = "counts"
        BY <1>3, PriorityPrograms
      <3>2. Step(0, 12, Append(console, "counts"))
        BY <1>1, <1>3, <2>6, <3>1, Lines DEF Moves, Step
      <3>3. Grows("set_priority", 1, "counts")
        <4> DEFINE lines == <<"counts">>
        <4>1. Expected["set_priority"] = {lines}
          BY DEF Expected
        <4>2. lines[1] = "counts"
          OBVIOUS
        <4> HIDE DEF lines
        <4>3. \A n \in Nat \ {0} : Grows("set_priority", n, lines[n])
          BY <4>1, OnlyConsole
        <4> QED BY <4>2, <4>3
      <3>4. Shown(1)'
        BY <2>6, <3>2, <3>3, Says DEF Priorities, One
      <3> QED BY <1>1, <2>6, <3>2, <3>4 DEF Priorities, Step, One
    <2> QED BY <2>2, <2>3, <2>4, <2>5, <2>6
  <1> QED BY <1>2, <1>3

\* The instructions of bind_queue.
LEMMA BindPrograms ==
  ASSUME test = "bind_queue"
  PROVE  LET P == Program(0) IN
         /\ Len(P) = 25
         /\ \A n \in {1, 6, 9} : P[n].op = "queue_create" /\ P[n].mode = "print"
         /\ \A n \in {2, 7, 10, 14} : P[n].op = "bind" /\ P[n].mode = "print"
         /\ \A n \in {3, 8, 17} : P[n].op = "queue_destroy" /\ P[n].mode = "print"
         /\ \A n \in {4, 18} : P[n].op = "unbind" /\ P[n].mode = "print"
         /\ P[5].op = "save"
         /\ P[11].op = "if" /\ P[11].condition = "not_ok" /\ P[11].arg = 16
         /\ P[12].op = "if" /\ P[12].condition = "saved_ok" /\ P[12].arg = 25
         /\ P[13].op = "unbind" /\ P[13].mode = "OK"
         /\ P[15].op = "goto" /\ P[15].arg = 17
         /\ P[19].op = "queue_create" /\ P[19].mode = "OK"
         /\ P[20].op = "bind" /\ P[20].mode = "OK"
         /\ P[21].op = "queue_destroy" /\ P[21].mode = "OK"
         /\ P[22].op = "thread_create" /\ P[22].arg = 1 /\ P[22].mode = "ignore"
         /\ P[23].op = "join" /\ P[23].arg = 1 /\ P[23].mode = "ignore"
         /\ P[24].op = "return"
BY DEF Program, Programs, bind_queue, CreateBindDestroy, Unbind, CreateQueue, DestroyQueue, If,
   Goto, I, On, sysCell, ENSURE_OK, ENSURE_VAL

\* Where main can be in it.
LEMMA BindAt == ASSUME KInv, test = "bind_queue" PROVE pos[0] \in 1..26
  <1>1. Len(Program(0)) = 25
    BY BindPrograms
  <1>2. pos[0] \in 1..(Len(Program(0)) + 1)
    BY MainAt
  <1> QED BY <1>1, <1>2, 25 + 1 = 26

\* Its thread receives from the queue of the SPU thread and shows the result.
LEMMA BindThread ==
  ASSUME test = "bind_queue", NEW t \in Threads \ {0}
  PROVE  LET P == Program(t) IN
         /\ Len(P) = 3 /\ P[1].op = "spu_receive" /\ P[1].mode = "ignore"
         /\ P[2].op = "print_ret" /\ P[3].op = "exit"
  <1>1. Program(t) = bind_queue.thread
    BY DEF Program, Programs
  <1> QED BY <1>1 DEF bind_queue, Exit, I, On

\* The lines of bind_queue.
LEMMA BindText ==
  LET G(n, line) == Grows("bind_queue", n, line) IN
  /\ G(1, "OK") /\ G(2, "OK") /\ G(3, "OK") /\ G(4, "OK") /\ G(5, "OK") /\ G(6, "OK") /\ G(7, "OK")
  /\ G(8, "OK") /\ G(9, "EBUSY") /\ G(10, "OK") /\ G(11, "OK") /\ G(12, "OK") /\ G(13, "EINVAL")
  <1> DEFINE lines == <<"OK", "OK", "OK", "OK", "OK", "OK", "OK", "OK", "EBUSY", "OK", "OK", "OK",
                        "EINVAL">>
  <1>1. Expected["bind_queue"] = {lines}
    BY DEF Expected
  <1>2. /\ \A n \in 1..8 \cup 10..12 : lines[n] = "OK"
        /\ lines[9] = "EBUSY" /\ lines[13] = "EINVAL"
    OBVIOUS
  <1> HIDE DEF lines
  <1>3. \A n \in Nat \ {0} : Grows("bind_queue", n, lines[n])
    BY <1>1, OnlyConsole
  <1> QED BY <1>2, <1>3

\* A queue stays bound when it is destroyed, and is unbound before the next is bound.
LEMMA BindQueueKept ==
  ASSUME KInv, BindQueue, NEW t \in Threads, Runs(t) PROVE BindQueue'
  <1> SUFFICES ASSUME test = "bind_queue" PROVE BindQueue'
    BY AtInstruction DEF BindQueue
  <1> DEFINE P == Program(t)
  <1>1. /\ thread[t] = "runs" /\ test' = test /\ Typed /\ ~failed
        /\ pos[t] \in 1..Len(P) /\ Instruction(t) = P[pos[t]]
        /\ pos \in [Threads -> Nat] /\ 1 \in Threads
    <2>1. 1 \in Threads
      BY DEF Threads
    <2> QED BY <2>1, AtInstruction
  <1>2. pos[0] < 23 => pos[1] = 1
    BY <1>1 DEF Typed, Begun, BindQueue
  <1>3. CASE t # 0
    <2>1. t = 1
      BY <1>1, <1>3, OneBeside DEF BindQueue
    <2>2. CASE pos[1] = 1
      <3>1. P[1].op = "spu_receive" /\ P[1].mode = "ignore"
        BY <1>3, BindThread
      <3>2. /\ Step(1, 2, console) /\ UNCHANGED <<thread, queue, bound, saved, ret[0]>>
            /\ ret'[1] = "EINVAL"
        BY <1>1, <2>1, <2>2, <3>1, SpuReceives, Passes DEF Returns, lv2, Threads
      <3>3. pos'[0] = pos[0] /\ pos'[1] = 2
        BY <3>2 DEF Step, Threads
      <3>4. Shown(BindShown[pos[0]] + One(pos[1] > 2))'
        BY <2>2, <3>2, <3>3 DEF BindQueue, Shown, Step, One
      <3> QED BY <1>1, <2>1, <2>2, <3>2, <3>3, <3>4 DEF BindQueue, Single, Step
    <2>3. CASE pos[1] = 2
      <3>1. P[2].op = "print_ret"
        BY <1>3, BindThread
      <3>2. Step(1, 3, Append(console, "EINVAL")) /\ UNCHANGED <<thread, queue, bound, saved, ret>>
        <4>1. ret[1] = "EINVAL"
          BY <1>1, <2>3 DEF BindQueue
        <4>2. /\ console' = Append(console, ret[1]) /\ Moves(1, pos[1] + 1)
              /\ UNCHANGED <<lv2, services, test, ret, array, saved, failed>>
          BY <1>1, <2>1, <2>3, <3>1, Lines
        <4> QED BY <1>1, <2>3, <4>1, <4>2 DEF Moves, Step, lv2
      <3>3. pos[0] \in {23, 24, 26} /\ pos'[0] = pos[0] /\ pos'[1] = 3
        <4>1. pos[0] \in 1..26
          BY BindAt
        <4>2. ~(pos[0] < 23) /\ pos[0] \notin {16, 25}
          BY <1>1, <2>1 DEF BindQueue
        <4>3. pos[0] \in {23, 24, 26}
          BY <4>1, <4>2
        <4> QED BY <3>2, <4>3 DEF Step, Threads
      <3>4. Shown(13)'
        BY <2>3, <3>2, <3>3, BindText, Says DEF BindQueue, BindShown, One
      <3>5. Shown(BindShown[pos[0]] + One(pos[1] > 2))'
        BY <3>3, <3>4 DEF BindShown, One
      <3> QED BY <1>1, <2>1, <2>3, <3>2, <3>3, <3>5 DEF BindQueue, Single, Step
    <2>4. CASE pos[1] = 3
      <3>1. P[3].op = "exit"
        BY <1>3, BindThread
      <3>2. /\ thread'[1] = "ended" /\ \A u \in Threads \ {1} : thread'[u] = thread[u]
            /\ UNCHANGED <<pos, queue, bound, saved, ret, failed, console, test>>
        BY <1>1, <2>1, <2>4, <3>1, Exits DEF services
      <3>3. Single /\ ~(pos[0] < 23)
        BY <1>1, <2>1 DEF BindQueue
      <3>4. Single'
        BY <3>2, <3>3 DEF Single, Threads
      <3>5. Shown(BindShown[pos[0]] + One(pos[1] > 2))'
        BY <1>1, <3>2 DEF BindQueue, Shown, One
      <3> QED BY <2>4, <3>2, <3>3, <3>5, <3>4 DEF BindQueue
    <2> Len(P) = 3
      BY <1>3, BindThread
    <2> QED BY <1>1, <2>1, <2>2, <2>3, <2>4
  <1>4. CASE t = 0
    <2> Len(P) = 25
      BY <1>4, BindPrograms
    <2>1. pos[0] \in 1..25
      BY <1>1, <1>4
    <2>2. CASE pos[0] = 1
      <3>1. P[1].op = "queue_create" /\ P[1].mode = "print"
        BY <1>4, BindPrograms
      <3>2. /\ Step(0, 2, Append(console, "OK")) /\ ret'[0] = "OK"
             /\ UNCHANGED <<thread, saved, ret[1], bound>> /\ queue' = "open"
        BY <1>1, <1>4, <2>2, <3>1, QueueCreates, Tells DEF Returns, Threads
      <3>3. Shown(1)'
        BY <2>2, <3>2, <1>2, BindText, Says DEF BindQueue, BindShown, One
      <3> QED BY <1>1, <1>4, <2>2, <3>2, <3>3, <1>2 DEF BindQueue, Step, Single, One, Threads,
        BindShown
    <2>3. CASE pos[0] = 6
      <3>1. P[6].op = "queue_create" /\ P[6].mode = "print"
        BY <1>4, BindPrograms
      <3>2. /\ Step(0, 7, Append(console, "OK")) /\ ret'[0] = "OK"
             /\ UNCHANGED <<thread, saved, ret[1], bound>> /\ queue' = "open"
        BY <1>1, <1>4, <2>3, <3>1, QueueCreates, Tells DEF Returns, Threads
      <3>3. Shown(5)'
        BY <2>3, <3>2, <1>2, BindText, Says DEF BindQueue, BindShown, One
      <3> QED BY <1>1, <1>4, <2>3, <3>2, <3>3, <1>2 DEF BindQueue, Step, Single, One, Threads,
        BindShown
    <2>4. CASE pos[0] = 9
      <3>1. P[9].op = "queue_create" /\ P[9].mode = "print"
        BY <1>4, BindPrograms
      <3>2. /\ Step(0, 10, Append(console, "OK")) /\ ret'[0] = "OK"
             /\ UNCHANGED <<thread, saved, ret[1], bound>> /\ queue' = "open"
        BY <1>1, <1>4, <2>4, <3>1, QueueCreates, Tells DEF Returns, Threads
      <3>3. Shown(8)'
        BY <2>4, <3>2, <1>2, BindText, Says DEF BindQueue, BindShown, One
      <3> QED BY <1>1, <1>4, <2>4, <3>2, <3>3, <1>2 DEF BindQueue, Step, Single, One, Threads,
        BindShown
    <2>5. CASE pos[0] = 19
      <3>1. P[19].op = "queue_create" /\ P[19].mode = "OK"
        BY <1>4, BindPrograms
      <3>2. /\ Step(0, 20, console) /\ ret'[0] = "OK"
             /\ UNCHANGED <<thread, saved, ret[1], bound>> /\ queue' = "open"
        BY <1>1, <1>4, <2>5, <3>1, QueueCreates, Passes DEF Returns, Threads
      <3> QED BY <1>1, <1>4, <2>5, <3>2, <1>2 DEF BindQueue, Step, Single, One, Threads, Shown,
           BindShown
    <2>6. CASE pos[0] = 2
      <3>1. ~bound
        BY <2>6 DEF BindQueue
      <3>2. P[2].op = "bind" /\ P[2].mode = "print"
        BY <1>4, BindPrograms
      <3>3. /\ Step(0, 3, Append(console, "OK")) /\ ret'[0] = "OK"
             /\ UNCHANGED <<thread, saved, ret[1], queue>> /\ bound'
        BY <1>1, <1>4, <2>6, <3>2, <3>1, BindCalls, Tells DEF Returns, Threads
      <3>4. Shown(2)'
        BY <2>6, <3>3, <1>2, BindText, Says DEF BindQueue, BindShown, One
      <3> QED BY <1>1, <1>4, <2>6, <3>3, <3>4, <1>2 DEF BindQueue, Step, Single, One, Threads,
        BindShown
    <2>7. CASE pos[0] = 7
      <3>1. ~bound
        BY <2>7 DEF BindQueue
      <3>2. P[7].op = "bind" /\ P[7].mode = "print"
        BY <1>4, BindPrograms
      <3>3. /\ Step(0, 8, Append(console, "OK")) /\ ret'[0] = "OK"
             /\ UNCHANGED <<thread, saved, ret[1], queue>> /\ bound'
        BY <1>1, <1>4, <2>7, <3>2, <3>1, BindCalls, Tells DEF Returns, Threads
      <3>4. Shown(6)'
        BY <2>7, <3>3, <1>2, BindText, Says DEF BindQueue, BindShown, One
      <3> QED BY <1>1, <1>4, <2>7, <3>3, <3>4, <1>2 DEF BindQueue, Step, Single, One, Threads,
        BindShown
    <2>8. CASE pos[0] = 10
      <3>1. bound
        BY <2>8 DEF BindQueue
      <3>2. P[10].op = "bind" /\ P[10].mode = "print"
        BY <1>4, BindPrograms
      <3>3. /\ Step(0, 11, Append(console, "EBUSY")) /\ ret'[0] = "EBUSY"
             /\ UNCHANGED <<thread, saved, ret[1], queue>> /\ bound'
        BY <1>1, <1>4, <2>8, <3>2, <3>1, BindCalls, Tells DEF Returns, Threads
      <3>4. Shown(9)'
        BY <2>8, <3>3, <1>2, BindText, Says DEF BindQueue, BindShown, One
      <3> QED BY <1>1, <1>4, <2>8, <3>3, <3>4, <1>2 DEF BindQueue, Step, Single, One, Threads,
           BindShown
    <2>9. CASE pos[0] = 14
      <3>1. ~bound
        BY <2>9 DEF BindQueue
      <3>2. P[14].op = "bind" /\ P[14].mode = "print"
        BY <1>4, BindPrograms
      <3>3. /\ Step(0, 15, Append(console, "OK")) /\ ret'[0] = "OK"
             /\ UNCHANGED <<thread, saved, ret[1], queue>> /\ bound'
        BY <1>1, <1>4, <2>9, <3>2, <3>1, BindCalls, Tells DEF Returns, Threads
      <3>4. Shown(10)'
        BY <2>9, <3>3, <1>2, BindText, Says DEF BindQueue, BindShown, One
      <3> QED BY <1>1, <1>4, <2>9, <3>3, <3>4, <1>2 DEF BindQueue, Step, Single, One, Threads,
           BindShown
    <2>10. CASE pos[0] = 20
      <3>1. ~bound
        BY <2>10 DEF BindQueue
      <3>2. P[20].op = "bind" /\ P[20].mode = "OK"
        BY <1>4, BindPrograms
      <3>3. /\ Step(0, 21, console) /\ ret'[0] = "OK"
             /\ UNCHANGED <<thread, saved, ret[1], queue>> /\ bound'
        BY <1>1, <1>4, <2>10, <3>2, <3>1, BindCalls, Passes DEF Returns, Threads
      <3> QED BY <1>1, <1>4, <2>10, <3>3, <1>2 DEF BindQueue, Step, Single, One, Threads, Shown,
           BindShown
    <2>11. CASE pos[0] = 3
      <3>1. queue = "open"
        BY <2>11 DEF BindQueue
      <3>2. P[3].op = "queue_destroy" /\ P[3].mode = "print"
        BY <1>4, BindPrograms
      <3>3. /\ Step(0, 4, Append(console, "OK")) /\ ret'[0] = "OK"
             /\ UNCHANGED <<thread, saved, ret[1], bound>> /\ queue' = "destroyed"
        BY <1>1, <1>4, <2>11, <3>2, <3>1, QueueDestroys, Tells DEF Returns, Threads
      <3>4. Shown(3)'
        BY <2>11, <3>3, <1>2, BindText, Says DEF BindQueue, BindShown, One
      <3> QED BY <1>1, <1>4, <2>11, <3>3, <3>4, <1>2 DEF BindQueue, Step, Single, One, Threads,
        BindShown
    <2>12. CASE pos[0] = 8
      <3>1. queue = "open"
        BY <2>12 DEF BindQueue
      <3>2. P[8].op = "queue_destroy" /\ P[8].mode = "print"
        BY <1>4, BindPrograms
      <3>3. /\ Step(0, 9, Append(console, "OK")) /\ ret'[0] = "OK"
             /\ UNCHANGED <<thread, saved, ret[1], bound>> /\ queue' = "destroyed"
        BY <1>1, <1>4, <2>12, <3>2, <3>1, QueueDestroys, Tells DEF Returns, Threads
      <3>4. Shown(7)'
        BY <2>12, <3>3, <1>2, BindText, Says DEF BindQueue, BindShown, One
      <3> QED BY <1>1, <1>4, <2>12, <3>3, <3>4, <1>2 DEF BindQueue, Step, Single, One, Threads,
        BindShown
    <2>13. CASE pos[0] = 17
      <3>1. queue = "open"
        BY <2>13 DEF BindQueue
      <3>2. P[17].op = "queue_destroy" /\ P[17].mode = "print"
        BY <1>4, BindPrograms
      <3>3. /\ Step(0, 18, Append(console, "OK")) /\ ret'[0] = "OK"
             /\ UNCHANGED <<thread, saved, ret[1], bound>> /\ queue' = "destroyed"
        BY <1>1, <1>4, <2>13, <3>2, <3>1, QueueDestroys, Tells DEF Returns, Threads
      <3>4. Shown(11)'
        BY <2>13, <3>3, <1>2, BindText, Says DEF BindQueue, BindShown, One
      <3> QED BY <1>1, <1>4, <2>13, <3>3, <3>4, <1>2 DEF BindQueue, Step, Single, One, Threads,
           BindShown
    <2>14. CASE pos[0] = 21
      <3>1. queue = "open"
        BY <2>14 DEF BindQueue
      <3>2. P[21].op = "queue_destroy" /\ P[21].mode = "OK"
        BY <1>4, BindPrograms
      <3>3. /\ Step(0, 22, console) /\ ret'[0] = "OK"
             /\ UNCHANGED <<thread, saved, ret[1], bound>> /\ queue' = "destroyed"
        BY <1>1, <1>4, <2>14, <3>2, <3>1, QueueDestroys, Passes DEF Returns, Threads
      <3> QED BY <1>1, <1>4, <2>14, <3>3, <1>2 DEF BindQueue, Step, Single, One, Threads, Shown,
           BindShown
    <2>15. CASE pos[0] = 4
      <3>1. bound
        BY <2>15 DEF BindQueue
      <3>2. P[4].op = "unbind" /\ P[4].mode = "print"
        BY <1>4, BindPrograms
      <3>3. /\ Step(0, 5, Append(console, "OK")) /\ ret'[0] = "OK"
             /\ UNCHANGED <<thread, saved, ret[1], queue>> /\ ~bound'
        BY <1>1, <1>4, <2>15, <3>2, <3>1, BindCalls, Tells DEF Returns, Threads
      <3>4. Shown(4)'
        BY <2>15, <3>3, <1>2, BindText, Says DEF BindQueue, BindShown, One
      <3> QED BY <1>1, <1>4, <2>15, <3>3, <3>4, <1>2 DEF BindQueue, Step, Single, One, Threads,
        BindShown
    <2>16. CASE pos[0] = 13
      <3>1. bound
        BY <2>16 DEF BindQueue
      <3>2. P[13].op = "unbind" /\ P[13].mode = "OK"
        BY <1>4, BindPrograms
      <3>3. /\ Step(0, 14, console) /\ ret'[0] = "OK"
             /\ UNCHANGED <<thread, saved, ret[1], queue>> /\ ~bound'
        BY <1>1, <1>4, <2>16, <3>2, <3>1, BindCalls, Passes DEF Returns, Threads
      <3> QED BY <1>1, <1>4, <2>16, <3>3, <1>2 DEF BindQueue, Step, Single, One, Threads, Shown,
           BindShown
    <2>17. CASE pos[0] = 18
      <3>1. bound
        BY <2>17 DEF BindQueue
      <3>2. P[18].op = "unbind" /\ P[18].mode = "print"
        BY <1>4, BindPrograms
      <3>3. /\ Step(0, 19, Append(console, "OK")) /\ ret'[0] = "OK"
             /\ UNCHANGED <<thread, saved, ret[1], queue>> /\ ~bound'
        BY <1>1, <1>4, <2>17, <3>2, <3>1, BindCalls, Tells DEF Returns, Threads
      <3>4. Shown(12)'
        BY <2>17, <3>3, <1>2, BindText, Says DEF BindQueue, BindShown, One
      <3> QED BY <1>1, <1>4, <2>17, <3>3, <3>4, <1>2 DEF BindQueue, Step, Single, One, Threads,
           BindShown
    <2>18. CASE pos[0] = 5
      <3>1. ret[0] = "OK"
        BY <2>18 DEF BindQueue
      <3>2. P[5].op = "save"
        BY <1>4, BindPrograms
      <3>3. /\ Step(0, 6, console) /\ UNCHANGED <<thread, queue, bound, ret>>
             /\ saved' = "OK"
        BY <1>1, <1>4, <2>18, <3>2, <3>1, Writes DEF Moves, Step, lv2
      <3> QED BY <1>1, <1>4, <2>18, <3>3, <1>2 DEF BindQueue, Step, Single, One, Threads, Shown,
           BindShown
    <2>19. CASE pos[0] = 11
      <3>1. ret[0] = "EBUSY"
        BY <2>19 DEF BindQueue
      <3>2. P[11].op = "if" /\ P[11].condition = "not_ok" /\ P[11].arg = 16
        BY <1>4, BindPrograms
      <3>3. Step(0, 12, console) /\ UNCHANGED <<thread, queue, bound, ret>> /\ saved' = saved
        BY <1>1, <1>4, <2>19, <3>2, <3>1, Branches, HoldsIs DEF Moves, Step, lv2
      <3> QED BY <1>1, <1>4, <2>19, <3>3, <1>2 DEF BindQueue, Step, Single, One, Threads, Shown,
           BindShown
    <2>20. CASE pos[0] = 12
      <3>1. saved = "OK"
        BY <2>20 DEF BindQueue
      <3>2. P[12].op = "if" /\ P[12].condition = "saved_ok" /\ P[12].arg = 25
        BY <1>4, BindPrograms
      <3>3. Step(0, 13, console) /\ UNCHANGED <<thread, queue, bound, ret>> /\ saved' = saved
        BY <1>1, <1>4, <2>20, <3>2, <3>1, Branches, HoldsIs DEF Moves, Step, lv2
      <3> QED BY <1>1, <1>4, <2>20, <3>3, <1>2 DEF BindQueue, Step, Single, One, Threads, Shown,
           BindShown
    <2>21. CASE pos[0] = 15
      <3>1. P[15].op = "goto" /\ P[15].arg = 17
        BY <1>4, BindPrograms
      <3>2. Step(0, 17, console) /\ UNCHANGED <<thread, queue, bound, ret>> /\ saved' = saved
        BY <1>1, <1>4, <2>21, <3>1, Branches DEF Moves, Step, lv2
      <3> QED BY <1>1, <1>4, <2>21, <3>2, <1>2 DEF BindQueue, Step, Single, One, Threads, Shown,
           BindShown
    <2>22. CASE pos[0] = 22
      <3>1. P[22].op = "thread_create" /\ P[22].arg = 1 /\ P[22].mode = "ignore"
        BY <1>4, BindPrograms
      <3>2. /\ Step(0, 23, console) /\ UNCHANGED <<saved, ret[1], queue, bound>>
             /\ thread'[1] = "runs" /\ \A u \in Threads \ {1} : thread'[u] = thread[u]
        BY <1>1, <1>4, <2>22, <3>1, Creates, Passes DEF Returns, Threads
      <3> QED BY <1>1, <1>4, <2>22, <3>2, <1>2 DEF BindQueue, Step, Single, One, Threads, Shown,
           BindShown
    <2>23. CASE pos[0] = 23
      <3>1. P[23].op = "join" /\ P[23].arg = 1 /\ P[23].mode = "ignore"
        BY <1>4, BindPrograms
      <3>2. /\ Step(0, 24, console) /\ UNCHANGED <<thread, saved, ret[1], queue, bound>>
             /\ thread[1] = "ended"
        BY <1>1, <1>4, <2>23, <3>1, JoinsEnded, Passes DEF lv2, Returns, Threads
      <3> QED BY <1>1, <1>4, <2>23, <3>2, <1>2 DEF BindQueue, Step, Single, One, Threads, Shown,
           BindShown
    <2>24. CASE pos[0] = 24
      <3>1. P[24].op = "return"
        BY <1>4, BindPrograms
      <3>2. Len(Program(t)) = 25
        BY <1>4, BindPrograms
      <3>3. Moves(t, Len(Program(t)) + 1) /\ UNCHANGED <<lv2, test, ret, saved, failed, console>>
        BY <1>1, <1>4, <2>24, <3>1, Branches
      <3>4. Moves(t, 26)
        BY <3>2, <3>3
      <3>5. Step(0, 26, console) /\ UNCHANGED <<thread, queue, bound, ret, saved>>
        BY <1>1, <1>4, <3>3, <3>4 DEF Moves, Step, lv2
      <3> QED BY <1>1, <1>4, <2>24, <3>5, <1>2 DEF BindQueue, Step, Single, One, Threads, Shown,
                 BindShown
    <2> QED BY <1>1, <1>4, <2>2, <2>6, <2>11, <2>15, <2>18, <2>3, <2>7, <2>12, <2>4, <2>8,
      <2>19, <2>20, <2>16, <2>9, <2>21, <2>13, <2>17, <2>5, <2>10, <2>14, <2>22, <2>23, <2>24,
      <2>1 DEF BindQueue
  <1> QED BY <1>3, <1>4

\* The instructions of the tests of the RSX's events.
LEMMA UnmapPrograms ==
  ASSUME test \in RsxTests
  PROVE  LET P == Program(0) IN
         /\ Len(P) = JoinAt + 1
         /\ P[1].op = "device_map" /\ P[1].mode = "print"
         /\ P[2].op = "memory_allocate" /\ P[2].mode = "print"
         /\ P[3].op = "context_allocate" /\ P[3].mode = "print"
         /\ P[4].op = "thread_create" /\ P[4].arg = 1 /\ P[4].mode = "OK"
         /\ \A n \in 5..(UnmapAt - 2) \cup (UnmapAt + 1)..(JoinAt - 1) :
              P[n].op = "memory" /\ P[n].mode \in {"ignore", "OK"}
         /\ P[UnmapAt - 1].op = "iomap" /\ P[UnmapAt - 1].mode = "print"
         /\ P[UnmapAt].op = "unmap" /\ P[UnmapAt].mode = "OK"
         /\ P[JoinAt].op = "join" /\ P[JoinAt].arg = 1
  <1> DEFINE A == sysCell(I("device_map"))
             B == sysCell(I("memory_allocate"))
             C == sysCell(I("context_allocate"))
             D == Create(1)
             M == ENSURE_OK(MemoryCall)
             N == MemoryCall
             U == UnmapMemory
             J == JoinThread
  <1>1. /\ A.op = "device_map" /\ A.mode = "print" /\ B.op = "memory_allocate" /\ B.mode = "print"
        /\ C.op = "context_allocate" /\ C.mode = "print"
        /\ D.op = "thread_create" /\ D.arg = 1 /\ D.mode = "OK"
        /\ M.op = "memory" /\ M.mode = "OK" /\ N.op = "memory" /\ N.mode = "ignore"
        /\ IoMap.op = "iomap" /\ IoMap.mode = "print" /\ U.op = "unmap" /\ U.mode = "OK"
        /\ J.op = "join" /\ J.arg = 1
    BY DEF MemoryCall, IoMap, UnmapMemory, JoinThread, Create, I, On, sysCell, ENSURE_OK, ENSURE_VAL
  <1>2. CASE test = "rsxunmapevent"
    <2>1. Program(0) = <<A, B, C>> \o <<D, M>> \o <<M, M>> \o <<IoMap, U, M, J, Finished>>
      BY <1>2 DEF Program, Programs, rsxunmapevent, DeviceMemoryContext, MapBlock
    <2> HIDE DEF A, B, C, D, M, N, U, J
    <2>2. Program(0) = <<A, B, C, D, M, M, M, IoMap, U, M, J, Finished>>
      BY <2>1
    <2>3. UnmapAt = 9 /\ JoinAt = 11
      BY <1>2 DEF UnmapAt, JoinAt
    <2> QED BY <1>1, <2>2, <2>3
  <1>3. CASE test = "rsxunmapevent_sys_memory"
    <2>1. Program(0) = <<A, B, C>> \o <<D, N, IoMap, U, J, Finished>>
      BY <1>3 DEF Program, Programs, rsxunmapevent_sys_memory, DeviceMemoryContext
    <2> HIDE DEF A, B, C, D, M, N, U, J
    <2>2. Program(0) = <<A, B, C, D, N, IoMap, U, J, Finished>>
      BY <2>1
    <2>3. UnmapAt = 7 /\ JoinAt = 8
      BY <1>3 DEF UnmapAt, JoinAt
    <2> QED BY <1>1, <2>2, <2>3
  <1> QED BY <1>2, <1>3 DEF RsxTests

\* Its thread passes over the blanks.
LEMMA UnmapThread ==
  ASSUME test \in RsxTests, NEW t \in Threads \ {0}
  PROVE  LET P == Program(t) IN
         /\ Len(P) = 6 /\ P[1].op = "receive" /\ P[1].timeout = FALSE
         /\ P[2].op = "if" /\ P[2].condition = "not_vblank" /\ P[2].arg = 1
         /\ P[3].op = "print_ret" /\ P[4].op = "goto" /\ P[4].arg = 1
  <1>1. Program(t) = threadEntry
    BY DEF Program, Programs, RsxTests, rsxunmapevent, rsxunmapevent_sys_memory
  <1> QED BY <1>1 DEF threadEntry, Receive, If, Goto, Exit, I, On

\* The lines: main's four and the event.
LEMMA UnmapText ==
  ASSUME test \in RsxTests
  PROVE  /\ Grows(test, 1, "+0") /\ Grows(test, 2, "OK") /\ Grows(test, 3, "+1")
         /\ Grows(test, 4, "OK") /\ Grows(test, 5, "unmapped")
  <1> DEFINE lines == <<"+0", "OK", "+1", "OK", "unmapped">>
  <1>1. Expected[test] = {lines}
    BY DEF Expected, RsxTests
  <1>2. /\ lines[1] = "+0" /\ lines[2] = "OK" /\ lines[3] = "+1" /\ lines[4] = "OK"
        /\ lines[5] = "unmapped"
    OBVIOUS
  <1> HIDE DEF lines
  <1>3. \A n \in Nat \ {0} : Grows(test, n, lines[n])
    BY <1>1, OnlyConsole
  <1> QED BY <1>2, <1>3

\* Where main is in the two tests.
LEMMA UnmapPlaces ==
  ASSUME test' = test
  PROVE  /\ UnmapAt' = UnmapAt /\ JoinAt' = JoinAt /\ UnmapAt \in 7..9 /\ JoinAt \in 8..11
         /\ UnmapAt < JoinAt
         /\ \A p : UnmapShown(p)' = UnmapShown(p)
         /\ UnmapShown(1) = 0 /\ UnmapShown(2) = 1 /\ UnmapShown(3) = 2 /\ UnmapShown(4) = 3
         /\ \A p \in 4..(UnmapAt - 1) : UnmapShown(p) = 3
         /\ \A p \in UnmapAt..JoinAt : UnmapShown(p) = 4
BY DEF UnmapAt, JoinAt, UnmapShown

\* The thread gets the event of main's unmap once, whatever vertical blanks come with it.
LEMMA ThreadKeepsUnmap ==
  ASSUME KInv, UnmapEvents, test \in RsxTests, NEW t \in Threads, t # 0, Runs(t)
  PROVE  UnmapEvents'
  <1> DEFINE P == Program(t)
  <1>1. /\ thread[t] = "runs" /\ test' = test /\ Typed /\ ~failed
        /\ pos[t] \in 1..Len(P) /\ Instruction(t) = P[pos[t]]
        /\ pos \in [Threads -> Nat]
    BY AtInstruction
  <1> 1 \in Threads \ {0} /\ 0 \in Threads \ {1}
    BY DEF Threads
  <1>2. /\ Single /\ queue = "open" /\ timer.state = "none" /\ notified = "none"
        /\ thread[1] # "ended" /\ pos[0] <= JoinAt /\ ~(pos[1] > 4) /\ Awaited
        /\ MappedAt(pos[0]) /\ UnmapLines
    BY <1>1 DEF UnmapEvents
  <1>3. t # 0
    OBVIOUS
  <1> QED
    <2>1. t = 1
      BY <1>1, <1>3, <1>2, OneBeside
    <2> DEFINE Others == UNCHANGED <<thread, queue, timer, notified, driver, test, pos[0], failed>>
    <2>2. Others => UnmapAt' = UnmapAt /\ JoinAt' = JoinAt /\ MappedAt(pos[0])' /\ Single'
      BY <1>2, UnmapPlaces DEF MappedAt, Single
    <2>3. Others /\ console' = console =>
            UnmapLines' /\ (Shown(4)' <=> Shown(4))
      BY <1>2, <2>2, UnmapPlaces DEF UnmapLines, Shown
    <2>4. CASE pos[1] = 1
      <3>1. P[1].op = "receive" /\ P[1].timeout = FALSE
        BY <1>3, UnmapThread
      <3>2. UNCHANGED <<thread, queue, timer, notified, failed, console, test, driver>>
        BY <1>1, <2>1, <2>4, <3>1, Receives DEF services
      <3>3. PICK r \in Results :
              /\ sys_event_queue_receive(P[1].timeout, r) /\ ret'[1] = r
              /\ Moves(1, IF r \in {"ESRCH", "ETIMEDOUT"} THEN P[1].arg ELSE pos[1] + 1)
        BY <1>1, <2>1, <2>4, <3>1, Receives
      <3>4. r = events[1] /\ events' = Tail(events) /\ events # <<>> /\ 1 \in 1..Len(events)
        BY <1>1, <1>2, <3>1, <3>3 DEF sys_event_queue_receive, Typed, Lv2Typed, Queued
      <3>5. r \in {"vblank", "unmapped"}
        BY <1>2, <3>4 DEF Awaited
      <3>6. pos'[0] = pos[0] /\ pos'[1] = 2
        BY <1>1, <2>4, <3>3, <3>5 DEF Moves
      <3>7. r = "unmapped" => pos[0] > UnmapAt /\ Shown(4)
        BY <1>2, <3>4 DEF Awaited
      <3>8. Len(events') = Len(events) - 1 /\ \A i \in 1..Len(events') : events'[i] = events[i + 1]
        BY <1>1, <3>4 DEF Typed, Lv2Typed, Queued
      <3>9. Others
        BY <3>2, <3>6
      <3>10. Awaited'
        <4>1. Len(events) \in Nat
          BY <1>1 DEF Typed, Lv2Typed, Queued
        <4>2. ASSUME NEW i \in 1..Len(events')
              PROVE  /\ i + 1 \in 1..Len(events) /\ i + 1 # 1 /\ events'[i] = events[i + 1]
                     /\ events[i + 1] \in {"vblank", "unmapped"}
                     /\ events[i + 1] = "unmapped" => r = "vblank"
          <5>1. i + 1 \in 1..Len(events) /\ i + 1 # 1 /\ events'[i] = events[i + 1]
            BY <3>8, <4>1
          <5> QED BY <1>2, <3>4, <3>5, <5>1 DEF Awaited
        <4>3. ASSUME NEW i \in 1..Len(events'), events'[i] = "unmapped"
              PROVE  /\ pos'[0] > UnmapAt' /\ Shown(4)' /\ ~Held'
                     /\ \A j \in 1..Len(events') : events'[j] = "unmapped" => j = i
          <5>1. pos[0] > UnmapAt /\ Shown(4) /\ r = "vblank"
            BY <1>2, <4>2, <4>3 DEF Awaited
          <5>2. \A j \in 1..Len(events') : events'[j] = "unmapped" => j + 1 = i + 1
            BY <1>2, <4>2, <4>3 DEF Awaited
          <5>3. \A j \in 1..Len(events') : j + 1 = i + 1 => j = i
            BY <3>8, <4>1
          <5>4. pos'[0] > UnmapAt' /\ Shown(4)'
            BY <2>2, <2>3, <3>2, <3>6, <3>9, <5>1
          <5>5. ~Held'
            BY <3>3, <5>1 DEF Held
          <5> QED BY <5>2, <5>3, <5>4, <5>5
        <4> QED BY <4>2, <4>3 DEF Awaited
      <3>11. Held' => pos[0] > UnmapAt /\ Shown(4)'
        BY <2>3, <3>2, <3>3, <3>7, <3>9 DEF Held
      <3> HIDE DEF Others
      <3>12. UnmapLines' /\ UnmapAt' = UnmapAt /\ JoinAt' = JoinAt /\ MappedAt(pos[0])' /\ Single'
        BY <2>2, <2>3, <3>2, <3>9
      <3>13. pos'[0] <= UnmapAt' => ~Held'
        BY <1>1, <3>6, <3>11, <3>12, UnmapPlaces
      <3> QED BY <1>1, <1>2, <3>2, <3>3, <3>5, <3>6, <3>10, <3>11, <3>12, <3>13 DEF UnmapEvents
    <2>5. CASE pos[1] = 2
      <3>1. P[2].op = "if" /\ P[2].condition = "not_vblank" /\ P[2].arg = 1
        BY <1>3, UnmapThread
      <3>2. /\ Step(1, IF ret[1] # "vblank" THEN 3 ELSE 1, console)
            /\ UNCHANGED <<thread, queue, events, timer, notified, driver, ret, failed>>
        BY <1>1, <2>1, <2>5, <3>1, Branches, HoldsIs DEF Moves, Step, lv2, services
      <3>3. Others /\ console' = console
        BY <3>2 DEF Step
      <3> HIDE DEF Others
      <3>4. Held' <=> Held
        BY <1>1, <2>5, <3>2 DEF UnmapEvents, Held, Step
      <3>5. /\ UnmapLines' /\ UnmapAt' = UnmapAt /\ JoinAt' = JoinAt /\ MappedAt(pos[0])' /\ Single'
            /\ (Shown(4)' <=> Shown(4))
        BY <2>2, <2>3, <3>3
      <3>6. Awaited'
        BY <1>1, <1>2, <3>2, <3>4, <3>5 DEF Awaited, Step
      <3> QED BY <1>1, <1>2, <2>5, <3>2, <3>4, <3>5, <3>6 DEF UnmapEvents, Step
    <2>6. CASE pos[1] = 3
      <3>1. P[3].op = "print_ret"
        BY <1>3, UnmapThread
      <3>2. Held /\ ret[1] = "unmapped" /\ Shown(4) /\ pos[0] > UnmapAt
        BY <1>1, <2>6, UnmapPlaces DEF UnmapEvents, Held
      <3>3. /\ Step(1, 4, Append(console, "unmapped"))
            /\ UNCHANGED <<thread, queue, events, timer, notified, driver, ret, failed>>
        BY <1>1, <2>1, <2>6, <3>1, <3>2, Lines DEF Moves, Step, lv2, services
      <3>4. Shown(5)'
        <4>1. 4 = 5 - 1 /\ 5 \in Nat /\ Grows(test, 5, "unmapped")
          BY UnmapText
        <4> QED BY <3>2, <3>3, <4>1, Says
      <3>5. Others
        BY <3>3 DEF Step
      <3> HIDE DEF Others
      <3>6. ~Held'
        BY <1>1, <2>6, <3>3 DEF Held, Step
      <3>7. /\ UnmapLines' /\ UnmapAt' = UnmapAt /\ JoinAt' = JoinAt /\ MappedAt(pos[0])' /\ Single'
        BY <2>2, <3>2, <3>3, <3>4, <3>5 DEF UnmapLines, Step
      <3>8. Awaited'
        BY <1>2, <3>2, <3>3 DEF Awaited
      <3> QED BY <1>1, <1>2, <2>6, <3>2, <3>3, <3>6, <3>7, <3>8 DEF UnmapEvents, Step
    <2>7. CASE pos[1] = 4
      <3>1. P[4].op = "goto" /\ P[4].arg = 1
        BY <1>3, UnmapThread
      <3>2. /\ Step(1, 1, console)
            /\ UNCHANGED <<thread, queue, events, timer, notified, driver, ret, failed>>
        BY <1>1, <2>1, <2>7, <3>1, Branches DEF Moves, Step, lv2, services
      <3>3. Others /\ console' = console
        BY <3>2 DEF Step
      <3> HIDE DEF Others
      <3>4. ~Held /\ ~Held'
        BY <1>1, <2>7, <3>2 DEF Held, Step
      <3>5. /\ UnmapLines' /\ UnmapAt' = UnmapAt /\ JoinAt' = JoinAt /\ MappedAt(pos[0])' /\ Single'
            /\ (Shown(4)' <=> Shown(4))
        BY <2>2, <2>3, <3>3
      <3>6. Awaited'
        BY <1>1, <1>2, <3>2, <3>4, <3>5 DEF Awaited, Step
      <3> QED BY <1>1, <1>2, <2>7, <3>2, <3>4, <3>5, <3>6 DEF UnmapEvents, Step
    <2> QED BY <1>1, <1>2, <2>1, <2>4, <2>5, <2>6, <2>7

\* Where there is only main, it is main that runs.
LEMMA MainRuns ==
  ASSUME KInv, Lone, NEW t \in Threads, Runs(t)
  PROVE  /\ t = 0 /\ Typed /\ ~failed /\ test' = test /\ 0 \in Threads
         /\ pos[0] \in 1..Len(Program(0)) /\ Instruction(0) = Program(0)[pos[0]]
  <1>1. /\ thread[t] = "runs" /\ test' = test /\ Typed /\ ~failed
        /\ pos[t] \in 1..Len(Program(t)) /\ Instruction(t) = Program(t)[pos[t]]
    BY AtInstruction
  <1>2. t = 0
    BY <1>1, OneBeside DEF Lone
  <1> QED BY <1>1, <1>2

\* It stays alone as long as no thread is created.
LEMMA StaysLone == ASSUME Lone, thread' = thread PROVE Lone'
BY DEF Lone, Single

\* Main prints a line at each of its instructions.
LEMMA NextShown ==
  ASSUME NEW line, pos[0] \in Nat \ {0}, Shown(pos[0] - 1), Grows(test, pos[0], line),
         Step(0, pos[0] + 1, Append(console, line))
  PROVE  Shown(pos[0] - 1)'
  <1>1. ~failed' /\ console' \in Text(test, pos[0]) /\ test' = test
    BY DEF Shown, Grows, Step
  <1>2. pos'[0] = pos[0] + 1 /\ pos'[0] - 1 = pos[0]
    BY DEF Step
  <1> QED BY <1>1, <1>2 DEF Shown

\* The instructions of camera_update_start.
LEMMA CameraPrograms ==
  ASSUME test = "camera_update_start"
  PROVE  LET P == Program(0) IN
         /\ Len(P) = 5
         /\ P[1].op = "gem_start" /\ P[1].mode = "print"
         /\ P[2].op = "gem_finish" /\ P[2].mode = "print"
         /\ P[3].op = "gem_start" /\ P[3].mode = "print"
         /\ P[4].op = "gem_start" /\ P[4].mode = "print"
         /\ P[5].op = "print" /\ P[5].arg = "sample_finished"
BY DEF Program, Programs, camera_update_start, Alone, UpdateStart, UpdateFinish, Finished,
   sysCell, I, On

\* The lines it prints.
LEMMA CameraText ==
  LET G(n, line) == Grows("camera_update_start", n, line) IN
  /\ G(1, "NO_VIDEO") /\ G(2, "NO_VIDEO") /\ G(3, "NO_VIDEO") /\ G(4, "UPDATE_NOT_FINISHED")
  /\ G(5, "sample_finished")
  <1> DEFINE lines == <<"NO_VIDEO", "NO_VIDEO", "NO_VIDEO", "UPDATE_NOT_FINISHED",
                        "sample_finished">>
  <1>1. Expected["camera_update_start"] = {lines}
    BY DEF Expected
  <1>2. /\ lines[1] = "NO_VIDEO" /\ lines[2] = "NO_VIDEO" /\ lines[3] = "NO_VIDEO"
        /\ lines[4] = "UPDATE_NOT_FINISHED" /\ lines[5] = "sample_finished"
    OBVIOUS
  <1> HIDE DEF lines
  <1>3. \A n \in Nat \ {0} : Grows("camera_update_start", n, lines[n])
    BY <1>1, OnlyConsole
  <1> QED BY <1>2, <1>3

\* An update of the camera that has not finished keeps another from its start.
LEMMA CameraKept ==
  ASSUME KInv, Camera, NEW t \in Threads, Runs(t) PROVE Camera'
  <1> SUFFICES ASSUME test = "camera_update_start" PROVE Camera'
    BY AtInstruction DEF Camera
  <1>1. t = 0 /\ test' = test /\ Typed /\ ~failed /\ pos[0] \in 1..Len(Program(0))
        /\ Instruction(0) = Program(0)[pos[0]]
    BY MainRuns DEF Camera
  <1>2. pos[0] \in 1..5 /\ Lone /\ Shown(pos[0] - 1) /\ (updating <=> pos[0] \in {2, 4, 5, 6})
    BY <1>1, CameraPrograms DEF Camera
  <1>3. CASE pos[0] \in {1, 3, 4}
    <2>1. Program(0)[pos[0]].op = "gem_start" /\ Program(0)[pos[0]].mode = "print"
      BY <1>3, CameraPrograms
    <2> DEFINE line == IF updating THEN "UPDATE_NOT_FINISHED" ELSE "NO_VIDEO"
    <2>2. Step(0, pos[0] + 1, Append(console, line)) /\ thread' = thread /\ updating'
      BY <1>1, <2>1, GemCalls, Tells DEF lv2
    <2>3. Grows(test, pos[0], line)
      BY <1>2, <1>3, CameraText
    <2>4. Shown(pos[0] - 1)'
      BY <1>2, <2>2, <2>3, NextShown
    <2> QED BY <1>1, <1>2, <1>3, <2>2, <2>4, StaysLone DEF Camera, Step
  <1>4. CASE pos[0] = 2
    <2>1. Program(0)[2].op = "gem_finish" /\ Program(0)[2].mode = "print"
      BY CameraPrograms
    <2>2. Step(0, pos[0] + 1, Append(console, "NO_VIDEO")) /\ thread' = thread /\ ~updating'
      BY <1>1, <1>4, <2>1, GemCalls, Tells DEF lv2
    <2>3. Shown(pos[0] - 1)'
      BY <1>2, <1>4, <2>2, CameraText, NextShown
    <2> QED BY <1>1, <1>2, <1>4, <2>2, <2>3, StaysLone DEF Camera, Step
  <1>5. CASE pos[0] = 5
    <2>1. Program(0)[5].op = "print" /\ Program(0)[5].arg = "sample_finished"
      BY CameraPrograms
    <2>2. /\ Step(0, pos[0] + 1, Append(console, "sample_finished"))
          /\ thread' = thread /\ updating' = updating
      BY <1>1, <1>5, <2>1, Lines DEF Moves, Step, lv2, services
    <2>3. Shown(pos[0] - 1)'
      BY <1>2, <1>5, <2>2, CameraText, NextShown
    <2> QED BY <1>1, <1>2, <1>5, <2>2, <2>3, StaysLone DEF Camera, Step
  <1> QED BY <1>2, <1>3, <1>4, <1>5

\* A wait for the audio, and one for nothing.
LEMMA AudioAwaits ==
  ASSUME Typed, NEW t \in Threads, Runs(t), NEW c, c = Instruction(t), c.op = "queue_receive",
         queue = "open", OnlyAudio
  PROVE  /\ ~c.arg => Does(t, c, "event") /\ OnlyAudio'
         /\ c.arg /\ events = <<>> => Does(t, c, "ETIMEDOUT") /\ OnlyAudio'
         /\ UNCHANGED <<thread, queue, services>>
  <1>1. PICK r \in Results : Does(t, c, r) /\ sys_event_queue_receive(c.arg, r)
    BY Awaits
  <1>2. UNCHANGED <<thread, queue, services>>
    BY Awaits
  <1>3. events \in Seq({"event", "vblank", "unmapped"})
    BY DEF Typed, Lv2Typed, Queued
  <1>4. CASE events # <<>>
    <2>1. r = events[1] /\ events' = Tail(events) /\ 1 \in 1..Len(events)
      BY <1>1, <1>3, <1>4 DEF sys_event_queue_receive
    <2>2. \A i \in 1..Len(events') : i + 1 \in 1..Len(events) /\ events'[i] = events[i + 1]
      BY <1>3, <1>4, <2>1
    <2> QED BY <1>1, <1>2, <1>4, <2>1, <2>2 DEF OnlyAudio
  <1>5. CASE events = <<>>
    <2>1. c.arg /\ r = "ETIMEDOUT" /\ events' = events
      BY <1>1, <1>5 DEF sys_event_queue_receive
    <2> QED BY <1>1, <1>2, <1>5, <2>1 DEF OnlyAudio
  <1> QED BY <1>4, <1>5

\* An empty queue.
LEMMA NoneIsAudio == ASSUME events' = <<>> PROVE OnlyAudio'
BY DEF OnlyAudio

\* A queue that stays as it is.
LEMMA SameAudio ==
  ASSUME OnlyAudio, UNCHANGED lv2 PROVE OnlyAudio' /\ UNCHANGED <<thread, queue, events>>
BY DEF OnlyAudio, lv2

\* The instructions of audio_set_notify_queue.
LEMMA NotifyPrograms ==
  ASSUME test = "audio_set_notify_queue"
  PROVE  LET P == Program(0) IN
         /\ Len(P) = 20
         /\ \A n \in {1, 6, 11, 16} : P[n].op = "queue_create" /\ P[n].mode = "OK"
         /\ \A n \in {2, 12} : P[n].op = "set_notify" /\ P[n].arg = "all" /\ P[n].mode = "OK"
         /\ \A n \in {3, 13} : P[n].op = "queue_receive" /\ P[n].arg = FALSE /\ P[n].mode = "event"
         /\ \A n \in {4, 8, 14} : P[n].op = "print" /\ P[n].arg = "event:"
         /\ \A n \in {5, 10, 15, 19} : P[n].op = "queue_destroy" /\ P[n].mode = "OK"
         /\ P[7].op = "queue_receive" /\ P[7].arg = TRUE /\ P[7].mode = "print"
         /\ \A n \in {9, 18} : P[n].op = "remove_notify" /\ P[n].arg = "all" /\ P[n].mode = "print"
         /\ P[17].op = "set_notify" /\ P[17].arg = "all" /\ P[17].mode = "print"
         /\ P[20].op = "print" /\ P[20].arg = "sample_finished"
BY DEF Program, Programs, audio_set_notify_queue, Alone, CreateNotifyQueue, Notify, AwaitEvent,
   Unnotify, CreateQueue, DestroyQueue, Finished, I, On, sysCell, ENSURE_OK, ENSURE_VAL

\* The lines it prints.
LEMMA NotifyText ==
  LET G(n, line) == Grows("audio_set_notify_queue", n, line) IN
  /\ G(1, "event:") /\ G(2, "ETIMEDOUT") /\ G(3, "event:") /\ G(4, "TRANS_EVENT") /\ G(5, "event:")
  /\ G(6, "OK") /\ G(7, "OK") /\ G(8, "sample_finished")
  <1> DEFINE lines == <<"event:", "ETIMEDOUT", "event:", "TRANS_EVENT", "event:", "OK", "OK",
                        "sample_finished">>
  <1>1. Expected["audio_set_notify_queue"] = {lines}
    BY DEF Expected
  <1>2. /\ lines[1] = "event:" /\ lines[2] = "ETIMEDOUT" /\ lines[3] = "event:"
        /\ lines[4] = "TRANS_EVENT" /\ lines[5] = "event:" /\ lines[6] = "OK" /\ lines[7] = "OK"
        /\ lines[8] = "sample_finished"
    OBVIOUS
  <1> HIDE DEF lines
  <1>3. \A n \in Nat \ {0} : Grows("audio_set_notify_queue", n, lines[n])
    BY <1>1, OnlyConsole
  <1> QED BY <1>2, <1>3

\* How many there are.
LEMMA NotifyLines ==
  /\ \A n \in 1..4 : NotifyShown[n] = 0
  /\ \A n \in 5..7 : NotifyShown[n] = 1
  /\ NotifyShown[8] = 2 /\ NotifyShown[9] = 3
  /\ \A n \in 10..14 : NotifyShown[n] = 4
  /\ \A n \in 15..17 : NotifyShown[n] = 5
  /\ NotifyShown[18] = 6 /\ NotifyShown[19] = 7 /\ NotifyShown[20] = 7 /\ NotifyShown[21] = 8
BY DEF NotifyShown

\* A queue that is destroyed is not told of the audio any more, and its key can be set again.
LEMMA NotifyQueueKept ==
  ASSUME KInv, NotifyQueue, NEW t \in Threads, Runs(t) PROVE NotifyQueue'
  <1> SUFFICES ASSUME test = "audio_set_notify_queue" PROVE NotifyQueue'
    BY AtInstruction DEF NotifyQueue
  <1>1. /\ t = 0 /\ test' = test /\ Typed /\ ~failed /\ pos[0] \in 1..Len(Program(0))
        /\ Instruction(0) = Program(0)[pos[0]] /\ 0 \in Threads
    BY MainRuns DEF NotifyQueue
  <1>2. /\ pos[0] \in 1..20 /\ Lone /\ Shown(NotifyShown[pos[0]]) /\ OnlyAudio
        /\ queue = "open" <=> pos[0] \in 2..5 \cup 7..10 \cup 12..15 \cup 17..19
        /\ notified = IF pos[0] \in 3..5 \cup 13..15 \cup {18} THEN "all" ELSE "none"
        /\ pos[0] \in 6..7 => events = <<>>
    BY <1>1, NotifyPrograms DEF NotifyQueue
  \* What is left to show of a step.
  <1>3. ASSUME NEW text, Step(0, pos[0] + 1, text), thread' = thread, OnlyAudio',
               ~failed' /\ console' \in Text(test, NotifyShown[pos[0] + 1]),
               queue' = "open" <=> pos[0] + 1 \in 2..5 \cup 7..10 \cup 12..15 \cup 17..19,
               notified' = IF pos[0] + 1 \in 3..5 \cup 13..15 \cup {18} THEN "all" ELSE "none",
               pos[0] + 1 \in 6..7 => events' = <<>>
        PROVE  NotifyQueue'
    <2>1. pos'[0] = pos[0] + 1 /\ test' = test
      BY <1>3 DEF Step
    <2>2. Lone'
      BY <1>2, <1>3, StaysLone
    <2> QED BY <1>3, <2>1, <2>2 DEF NotifyQueue, Shown
  <1>4. ASSUME Step(0, pos[0] + 1, console), NotifyShown[pos[0] + 1] = NotifyShown[pos[0]]
        PROVE  ~failed' /\ console' \in Text(test, NotifyShown[pos[0] + 1])
    BY <1>2, <1>4 DEF Step, Shown
  <1>5. ASSUME NEW line, NEW n \in Nat, Grows(test, n, line), NotifyShown[pos[0]] = n - 1,
               Step(0, pos[0] + 1, Append(console, line)), NotifyShown[pos[0] + 1] = n
        PROVE  ~failed' /\ console' \in Text(test, NotifyShown[pos[0] + 1])
    BY <1>2, <1>5 DEF Step, Shown, Grows
  <1>6. CASE pos[0] \in {1, 6, 11, 16}
    <2>1. Program(0)[pos[0]].op = "queue_create" /\ Program(0)[pos[0]].mode = "OK"
      BY <1>6, NotifyPrograms
    <2>2. /\ Step(0, pos[0] + 1, console) /\ thread' = thread /\ queue' = "open" /\ events' = <<>>
          /\ notified' = notified
      BY <1>1, <2>1, QueueCreates, Passes DEF services
    <2>3. NotifyShown[pos[0] + 1] = NotifyShown[pos[0]]
      BY <1>6, NotifyLines
    <2>4. notified = "none"
      BY <1>2, <1>6
    <2> QED BY <1>3, <1>4, <1>6, <2>2, <2>3, <2>4, NoneIsAudio
  <1>7. CASE pos[0] \in {2, 12}
    <2>1. /\ Program(0)[pos[0]].op = "set_notify" /\ Program(0)[pos[0]].arg = "all"
          /\ Program(0)[pos[0]].mode = "OK"
      BY <1>7, NotifyPrograms
    <2>2. notified = "none" /\ queue = "open"
      BY <1>2, <1>7
    <2>3. Step(0, pos[0] + 1, console) /\ UNCHANGED lv2 /\ notified' = "all"
      BY <1>1, <2>1, <2>2, NotifyCalls, Passes
    <2>4. NotifyShown[pos[0] + 1] = NotifyShown[pos[0]]
      BY <1>7, NotifyLines
    <2> QED BY <1>2, <1>3, <1>4, <1>7, <2>2, <2>3, <2>4, SameAudio
  <1>8. CASE pos[0] \in {3, 13}
    <2>1. /\ Program(0)[pos[0]].op = "queue_receive" /\ Program(0)[pos[0]].arg = FALSE
          /\ Program(0)[pos[0]].mode = "event"
      BY <1>8, NotifyPrograms
    <2>2. notified = "all" /\ queue = "open"
      BY <1>2, <1>8
    <2>3. /\ Step(0, pos[0] + 1, console) /\ OnlyAudio' /\ UNCHANGED <<thread, queue, notified>>
      BY <1>1, <1>2, <2>1, <2>2, AudioAwaits, Passes DEF services
    <2>4. NotifyShown[pos[0] + 1] = NotifyShown[pos[0]]
      BY <1>8, NotifyLines
    <2> QED BY <1>2, <1>3, <1>4, <1>8, <2>2, <2>3, <2>4
  <1>9. CASE pos[0] \in {4, 8, 14}
    <2>1. Program(0)[pos[0]].op = "print" /\ Program(0)[pos[0]].arg = "event:"
      BY <1>9, NotifyPrograms
    <2>2. Step(0, pos[0] + 1, Append(console, "event:")) /\ UNCHANGED <<lv2, services>>
      BY <1>1, <2>1, Lines DEF Moves, Step
    <2>3. \E n \in {1, 3, 5} : /\ NotifyShown[pos[0] + 1] = n /\ NotifyShown[pos[0]] = n - 1
                               /\ Grows(test, n, "event:")
      BY <1>9, NotifyLines, NotifyText
    <2>4. ~failed' /\ console' \in Text(test, NotifyShown[pos[0] + 1])
      BY <1>5, <2>2, <2>3
    <2>5. queue' = queue /\ notified' = notified /\ OnlyAudio' /\ thread' = thread
      BY <1>2, <2>2, SameAudio DEF services
    <2> QED BY <1>2, <1>3, <1>9, <2>2, <2>4, <2>5
  <1>10. CASE pos[0] \in {5, 10, 15, 19}
    <2>1. Program(0)[pos[0]].op = "queue_destroy" /\ Program(0)[pos[0]].mode = "OK"
      BY <1>10, NotifyPrograms
    <2>2. queue = "open"
      BY <1>2, <1>10
    <2>3. /\ Step(0, pos[0] + 1, console) /\ thread' = thread
          /\ queue' = "destroyed" /\ events' = <<>>
          /\ notified' = "none"
      BY <1>1, <2>1, <2>2, QueueDestroys, Passes
    <2>4. NotifyShown[pos[0] + 1] = NotifyShown[pos[0]]
      BY <1>10, NotifyLines
    <2> QED BY <1>3, <1>4, <1>10, <2>3, <2>4, NoneIsAudio
  <1>11. CASE pos[0] = 7
    <2>1. /\ Program(0)[7].op = "queue_receive" /\ Program(0)[7].arg = TRUE
          /\ Program(0)[7].mode = "print"
      BY NotifyPrograms
    <2>2. notified = "none" /\ queue = "open" /\ events = <<>>
      BY <1>2, <1>11
    <2>3. /\ Step(0, pos[0] + 1, Append(console, "ETIMEDOUT"))
          /\ OnlyAudio' /\ UNCHANGED <<thread, queue, notified>>
      BY <1>1, <1>2, <1>11, <2>1, <2>2, AudioAwaits, Tells DEF services
    <2>4. ~failed' /\ console' \in Text(test, NotifyShown[pos[0] + 1])
      BY <1>5, <1>11, <2>3, NotifyLines, NotifyText
    <2> QED BY <1>3, <1>11, <2>2, <2>3, <2>4
  <1>12. CASE pos[0] \in {9, 18}
    <2>1. /\ Program(0)[pos[0]].op = "remove_notify" /\ Program(0)[pos[0]].arg = "all"
          /\ Program(0)[pos[0]].mode = "print"
      BY <1>12, NotifyPrograms
    <2> DEFINE line == IF pos[0] = 9 THEN "TRANS_EVENT" ELSE "OK"
    <2>2. queue = "open" /\ notified = IF pos[0] = 9 THEN "none" ELSE "all"
      BY <1>2, <1>12
    <2>3. Step(0, pos[0] + 1, Append(console, line)) /\ UNCHANGED lv2 /\ notified' = "none"
      BY <1>1, <2>1, <2>2, NotifyCalls, Tells
    <2>4. ~failed' /\ console' \in Text(test, NotifyShown[pos[0] + 1])
      BY <1>5, <1>12, <2>3, NotifyLines, NotifyText
    <2> QED BY <1>2, <1>3, <1>12, <2>2, <2>3, <2>4, SameAudio
  <1>13. CASE pos[0] = 17
    <2>1. /\ Program(0)[17].op = "set_notify" /\ Program(0)[17].arg = "all"
          /\ Program(0)[17].mode = "print"
      BY NotifyPrograms
    <2>2. notified = "none" /\ queue = "open"
      BY <1>2, <1>13
    <2>3. Step(0, pos[0] + 1, Append(console, "OK")) /\ UNCHANGED lv2 /\ notified' = "all"
      BY <1>1, <1>13, <2>1, <2>2, NotifyCalls, Tells
    <2>4. ~failed' /\ console' \in Text(test, NotifyShown[pos[0] + 1])
      BY <1>5, <1>13, <2>3, NotifyLines, NotifyText
    <2> QED BY <1>2, <1>3, <1>13, <2>2, <2>3, <2>4, SameAudio
  <1>14. CASE pos[0] = 20
    <2>1. Program(0)[20].op = "print" /\ Program(0)[20].arg = "sample_finished"
      BY NotifyPrograms
    <2>2. Step(0, pos[0] + 1, Append(console, "sample_finished")) /\ UNCHANGED <<lv2, services>>
      BY <1>1, <1>14, <2>1, Lines DEF Moves, Step
    <2>3. ~failed' /\ console' \in Text(test, NotifyShown[pos[0] + 1])
      BY <1>5, <1>14, <2>2, NotifyLines, NotifyText
    <2>4. queue' = queue /\ notified' = notified /\ OnlyAudio' /\ thread' = thread
      BY <1>2, <2>2, SameAudio DEF services
    <2> QED BY <1>2, <1>3, <1>14, <2>2, <2>3, <2>4
  <1> QED BY <1>2, <1>6, <1>7, <1>8, <1>9, <1>10, <1>11, <1>12, <1>13, <1>14

\* The instructions of audio_set_notify_queue_ex: it waits for as many events as it is told.
LEMMA NotifyExPrograms ==
  ASSUME test = "audio_set_notify_queue_ex"
  PROVE  LET P == Program(0) IN
         /\ Len(P) = Events + 5 /\ Events \in Nat
         /\ P[1].op = "queue_create" /\ P[1].mode = "OK"
         /\ P[2].op = "set_notify" /\ P[2].arg = "some" /\ P[2].mode = "print"
         /\ \A n \in 3..(Events + 2) :
              P[n].op = "queue_receive" /\ P[n].arg = FALSE /\ P[n].mode = "event"
         /\ P[Events + 3].op = "print" /\ P[Events + 3].arg = "passed"
         /\ P[Events + 4].op = "remove_notify" /\ P[Events + 4].arg = "all"
         /\ P[Events + 4].mode = "print"
         /\ P[Events + 5].op = "remove_notify" /\ P[Events + 5].arg = "some"
         /\ P[Events + 5].mode = "print"
  <1> DEFINE create == CreateNotifyQueue
             set == sysCell(Notify("some"))
             passed == On("print", "passed")
             all == sysCell(Unnotify("all"))
             some == sysCell(Unnotify("some"))
             Waiting == [i \in 1..Events |-> AwaitEvent]
             P == (<<create, set>> \o Waiting) \o <<passed, all, some>>
  <1>1. Program(0) = P
    BY DEF Program, Programs, audio_set_notify_queue_ex, Alone, Repeat
  <1>2. /\ create.op = "queue_create" /\ create.mode = "OK"
        /\ set.op = "set_notify" /\ set.arg = "some" /\ set.mode = "print"
        /\ AwaitEvent.op = "queue_receive" /\ AwaitEvent.arg = FALSE /\ AwaitEvent.mode = "event"
        /\ passed.op = "print" /\ passed.arg = "passed"
        /\ all.op = "remove_notify" /\ all.arg = "all" /\ all.mode = "print"
        /\ some.op = "remove_notify" /\ some.arg = "some" /\ some.mode = "print"
    BY DEF CreateNotifyQueue, CreateQueue, Notify, AwaitEvent, Unnotify, I, On, sysCell,
       ENSURE_OK, ENSURE_VAL
  <1>3. Events \in Nat
    BY KernelTestsAssumption DEF KernelTestsAssumption
  <1> HIDE DEF create, set, passed, all, some
  <1>4. /\ Len(P) = Events + 5 /\ P[1] = create /\ P[2] = set
        /\ P[Events + 3] = passed /\ P[Events + 4] = all /\ P[Events + 5] = some
        /\ \A n \in 3..(Events + 2) : P[n] = AwaitEvent
    <2> DEFINE S == {create, set, passed, all, some, AwaitEvent}
    <2>1. /\ Waiting \in Seq(S) /\ Len(Waiting) = Events /\ <<create, set>> \in Seq(S)
          /\ <<passed, all, some>> \in Seq(S)
      BY <1>3
    <2>2. \A i \in 1..Events : Waiting[i] = AwaitEvent
      OBVIOUS
    <2> HIDE DEF Waiting, S
    <2>3. /\ <<create, set>> \o Waiting \in Seq(S) /\ Len(<<create, set>> \o Waiting) = Events + 2
          /\ (<<create, set>> \o Waiting)[1] = create /\ (<<create, set>> \o Waiting)[2] = set
          /\ \A n \in 3..(Events + 2) : (<<create, set>> \o Waiting)[n] = Waiting[n - 2]
      BY <1>3, <2>1
    <2> DEFINE Q == <<create, set>> \o Waiting
    <2> HIDE DEF Q
    <2>4. P = Q \o <<passed, all, some>>
      BY DEF Q
    <2>5. /\ Q \in Seq(S) /\ Len(Q) = Events + 2 /\ Q[1] = create /\ Q[2] = set
          /\ \A n \in 3..(Events + 2) : Q[n] = AwaitEvent
      BY <1>3, <2>2, <2>3 DEF Q
    <2> DEFINE R == <<passed, all, some>>
    <2>6. R \in Seq(S) /\ Len(R) = 3 /\ R[1] = passed /\ R[2] = all /\ R[3] = some
      BY <2>1
    <2>7. P = Q \o R
      BY <2>4
    <2> HIDE DEF R, P
    <2>8. /\ Len(Q \o R) = Len(Q) + Len(R)
          /\ \A n \in 1..(Len(Q) + Len(R)) : (Q \o R)[n] = IF n <= Len(Q) THEN Q[n] ELSE R[n - Len(Q)]
      BY <2>5, <2>6, ConcatProperties, Zenon
    <2> HIDE DEF Q
    <2> QED BY <1>3, <2>5, <2>6, <2>7, <2>8
  <1> HIDE DEF P
  <1> QED BY <1>1, <1>2, <1>3, <1>4

\* The lines it prints.
LEMMA NotifyExText ==
  LET G(n, line) == Grows("audio_set_notify_queue_ex", n, line) IN
  G(1, "OK") /\ G(2, "passed") /\ G(3, "TRANS_EVENT") /\ G(4, "OK")
  <1> DEFINE lines == <<"OK", "passed", "TRANS_EVENT", "OK">>
  <1>1. Expected["audio_set_notify_queue_ex"] = {lines}
    BY DEF Expected
  <1>2. lines[1] = "OK" /\ lines[2] = "passed" /\ lines[3] = "TRANS_EVENT" /\ lines[4] = "OK"
    OBVIOUS
  <1> HIDE DEF lines
  <1>3. \A n \in Nat \ {0} : Grows("audio_set_notify_queue_ex", n, lines[n])
    BY <1>1, OnlyConsole
  <1> QED BY <1>2, <1>3

\* Main gets its events, and the queue is removed from those that are told as it was added.
LEMMA NotifyQueueExKept ==
  ASSUME KInv, NotifyQueueEx, NEW t \in Threads, Runs(t) PROVE NotifyQueueEx'
  <1> SUFFICES ASSUME test = "audio_set_notify_queue_ex" PROVE NotifyQueueEx'
    BY AtInstruction DEF NotifyQueueEx
  <1> DEFINE LinesAt(n) == One(n > 2) + One(n > Events + 3) + One(n > Events + 4)
                          + One(n > Events + 5)
  <1>1. /\ t = 0 /\ test' = test /\ Typed /\ ~failed /\ pos[0] \in 1..Len(Program(0))
        /\ Instruction(0) = Program(0)[pos[0]] /\ 0 \in Threads
    BY MainRuns DEF NotifyQueueEx
  <1>2. /\ pos[0] \in 1..(Events + 5) /\ Events \in Nat /\ Lone /\ OnlyAudio
        /\ Shown(LinesAt(pos[0]))
        /\ queue = "open" <=> pos[0] > 1
        /\ notified = IF pos[0] \in 3..(Events + 5) THEN "some" ELSE "none"
    BY <1>1, NotifyExPrograms DEF NotifyQueueEx
  \* What is left to show of a step.
  <1>3. ASSUME NEW text, Step(0, pos[0] + 1, text), thread' = thread, OnlyAudio', queue' = "open",
               text \in Text(test, LinesAt(pos[0] + 1)),
               notified' = IF pos[0] + 1 \in 3..(Events + 5) THEN "some" ELSE "none"
        PROVE  NotifyQueueEx'
    <2>1. pos'[0] = pos[0] + 1 /\ test' = test /\ ~failed' /\ console' = text
      BY <1>3 DEF Step
    <2>2. Lone'
      BY <1>2, <1>3, StaysLone
    <2>3. pos'[0] > 1
      BY <1>2, <2>1
    <2> QED BY <1>3, <2>1, <2>2, <2>3 DEF NotifyQueueEx, Shown
  <1>4. ASSUME NEW line, NEW n \in Nat, Grows(test, n, line), LinesAt(pos[0]) = n - 1
        PROVE  Append(console, line) \in Text(test, n)
    BY <1>2, <1>4 DEF Shown, Grows
  <1>5. console \in Text(test, LinesAt(pos[0]))
    BY <1>2 DEF Shown
  <1>6. CASE pos[0] = 1
    <2>1. Program(0)[1].op = "queue_create" /\ Program(0)[1].mode = "OK"
      BY NotifyExPrograms
    <2>2. /\ Step(0, pos[0] + 1, console) /\ thread' = thread /\ queue' = "open" /\ events' = <<>>
          /\ notified' = notified
      BY <1>1, <1>6, <2>1, QueueCreates, Passes DEF services
    <2>3. LinesAt(pos[0] + 1) = LinesAt(pos[0])
      BY <1>2, <1>6 DEF One
    <2>4. notified = "none" /\ pos[0] + 1 \notin 3..(Events + 5)
      BY <1>2, <1>6
    <2> HIDE DEF LinesAt
    <2> QED BY <1>3, <1>5, <2>2, <2>3, <2>4, NoneIsAudio
  <1>7. CASE pos[0] = 2
    <2>1. /\ Program(0)[2].op = "set_notify" /\ Program(0)[2].arg = "some"
          /\ Program(0)[2].mode = "print"
      BY NotifyExPrograms
    <2>2. notified = "none" /\ queue = "open" /\ pos[0] + 1 \in 3..(Events + 5)
      BY <1>2, <1>7
    <2>3. Step(0, pos[0] + 1, Append(console, "OK")) /\ UNCHANGED lv2 /\ notified' = "some"
      BY <1>1, <1>7, <2>1, <2>2, NotifyCalls, Tells
    <2>4. LinesAt(pos[0] + 1) = 1 /\ LinesAt(pos[0]) = 1 - 1
      BY <1>2, <1>7 DEF One
    <2> HIDE DEF LinesAt
    <2>5. Append(console, "OK") \in Text(test, LinesAt(pos[0] + 1))
      BY <1>4, <2>4, NotifyExText
    <2> QED BY <1>2, <1>3, <2>2, <2>3, <2>5, SameAudio
  <1>8. CASE pos[0] \in 3..(Events + 2)
    <2>1. /\ Program(0)[pos[0]].op = "queue_receive" /\ Program(0)[pos[0]].arg = FALSE
          /\ Program(0)[pos[0]].mode = "event"
      BY <1>8, NotifyExPrograms
    <2>2. notified = "some" /\ queue = "open" /\ pos[0] + 1 \in 3..(Events + 5)
      BY <1>2, <1>8
    <2>3. Step(0, pos[0] + 1, console) /\ OnlyAudio' /\ UNCHANGED <<thread, queue, notified>>
      BY <1>1, <1>2, <2>1, <2>2, AudioAwaits, Passes DEF services
    <2>4. LinesAt(pos[0] + 1) = LinesAt(pos[0])
      BY <1>2, <1>8 DEF One
    <2> HIDE DEF LinesAt
    <2> QED BY <1>3, <1>5, <2>2, <2>3, <2>4
  <1>9. CASE pos[0] = Events + 3
    <2>1. Program(0)[pos[0]].op = "print" /\ Program(0)[pos[0]].arg = "passed"
      BY <1>9, NotifyExPrograms
    <2>2. Step(0, pos[0] + 1, Append(console, "passed")) /\ UNCHANGED <<lv2, services>>
      BY <1>1, <2>1, Lines DEF Moves, Step
    <2>3. notified = "some" /\ queue = "open" /\ pos[0] + 1 \in 3..(Events + 5)
      BY <1>2, <1>9
    <2>4. LinesAt(pos[0] + 1) = 2 /\ LinesAt(pos[0]) = 2 - 1
      BY <1>2, <1>9 DEF One
    <2> HIDE DEF LinesAt
    <2>5. Append(console, "passed") \in Text(test, LinesAt(pos[0] + 1))
      BY <1>4, <2>4, NotifyExText
    <2>6. queue' = queue /\ notified' = notified /\ OnlyAudio' /\ thread' = thread
      BY <1>2, <2>2, SameAudio DEF services
    <2> QED BY <1>3, <2>2, <2>3, <2>5, <2>6
  <1>10. CASE pos[0] = Events + 4
    <2>1. /\ Program(0)[pos[0]].op = "remove_notify" /\ Program(0)[pos[0]].arg = "all"
          /\ Program(0)[pos[0]].mode = "print"
      BY <1>10, NotifyExPrograms
    <2>2. notified = "some" /\ queue = "open" /\ pos[0] + 1 \in 3..(Events + 5)
      BY <1>2, <1>10
    <2>3. /\ Step(0, pos[0] + 1, Append(console, "TRANS_EVENT")) /\ UNCHANGED lv2
          /\ notified' = "some"
      BY <1>1, <2>1, <2>2, NotifyCalls, Tells
    <2>4. LinesAt(pos[0] + 1) = 3 /\ LinesAt(pos[0]) = 3 - 1
      BY <1>2, <1>10 DEF One
    <2> HIDE DEF LinesAt
    <2>5. Append(console, "TRANS_EVENT") \in Text(test, LinesAt(pos[0] + 1))
      BY <1>4, <2>4, NotifyExText
    <2> QED BY <1>2, <1>3, <2>2, <2>3, <2>5, SameAudio
  <1>11. CASE pos[0] = Events + 5
    <2>1. /\ Program(0)[pos[0]].op = "remove_notify" /\ Program(0)[pos[0]].arg = "some"
          /\ Program(0)[pos[0]].mode = "print"
      BY <1>11, NotifyExPrograms
    <2>2. notified = "some" /\ queue = "open" /\ pos[0] + 1 \notin 3..(Events + 5)
      BY <1>2, <1>11
    <2>3. /\ Step(0, pos[0] + 1, Append(console, "OK")) /\ UNCHANGED lv2 /\ notified' = "none"
      BY <1>1, <2>1, <2>2, NotifyCalls, Tells
    <2>4. LinesAt(pos[0] + 1) = 4 /\ LinesAt(pos[0]) = 4 - 1
      BY <1>2, <1>11 DEF One
    <2> HIDE DEF LinesAt
    <2>5. Append(console, "OK") \in Text(test, LinesAt(pos[0] + 1))
      BY <1>4, <2>4, NotifyExText
    <2> QED BY <1>2, <1>3, <2>2, <2>3, <2>5, SameAudio
  <1> QED BY <1>2, <1>6, <1>7, <1>8, <1>9, <1>10, <1>11

\* What the tests get of the driver, one call after the other.
LEMMA DeviceMaps ==
  ASSUME Typed, NEW t \in Threads, Runs(t), NEW c, c = Instruction(t), c.op = "device_map"
  PROVE  /\ driver = Given(FALSE, NoBlock, NoBlock, 0) =>
              Does(t, c, "+0") /\ driver' = Given(FALSE, 0, NoBlock, 1)
         /\ driver = Given(TRUE, NoBlock, 0, 3) =>
              Does(t, c, "+3") /\ driver' = Given(TRUE, 3, 0, 4)
         /\ driver = Given(TRUE, 3, 0, 4) => Does(t, c, "+3") /\ driver' = Given(TRUE, 3, 0, 4)
         /\ thread' = thread
  <1>1. Block(0) = "+0" /\ Block(3) = "+3" /\ NoBlock # 3
    BY DEF Block, NoBlock
  <1>2. driver = Given(FALSE, NoBlock, NoBlock, 0) =>
          Does(t, c, "+0") /\ driver' = Given(FALSE, 0, NoBlock, 1)
    <2> HAVE driver = Given(FALSE, NoBlock, NoBlock, 0)
    <2>1. /\ Does(t, c, Block(0))
          /\ driver' = [memory |-> FALSE, device |-> 0, context |-> NoBlock, blocks |-> 0 + 1]
      BY DriverCalls
    <2> QED BY <1>1, <2>1, 0 + 1 = 1 DEF Given
  <1>3. driver = Given(TRUE, NoBlock, 0, 3) => Does(t, c, "+3") /\ driver' = Given(TRUE, 3, 0, 4)
    <2> HAVE driver = Given(TRUE, NoBlock, 0, 3)
    <2>1. /\ Does(t, c, Block(3))
          /\ driver' = [memory |-> TRUE, device |-> 3, context |-> 0, blocks |-> 3 + 1]
      BY DriverCalls
    <2> QED BY <1>1, <2>1, 3 + 1 = 4 DEF Given
  <1>4. driver = Given(TRUE, 3, 0, 4) => Does(t, c, "+3") /\ driver' = Given(TRUE, 3, 0, 4)
    <2> HAVE driver = Given(TRUE, 3, 0, 4)
    <2>1. /\ Does(t, c, Block(IF 3 = NoBlock THEN 4 ELSE 3))
          /\ 3 # NoBlock => driver' = driver
      BY DriverCalls
    <2>2. (IF 3 = NoBlock THEN 4 ELSE 3) = 3
      BY <1>1
    <2>3. Does(t, c, Block(3)) /\ driver' = driver
      BY <1>1, <2>1, <2>2
    <2> QED BY <1>1, <2>3 DEF Given
  <1>5. thread' = thread
    BY CallMakes DEF CallOps, KernelOps, ServiceOps, lv2
  <1> QED BY <1>2, <1>3, <1>4, <1>5

\* Memory is allocated once.
LEMMA MemoryAllocates ==
  ASSUME Typed, NEW t \in Threads, Runs(t), NEW c, c = Instruction(t), c.op = "memory_allocate"
  PROVE  /\ driver = Given(FALSE, NoBlock, NoBlock, 0) =>
              Does(t, c, "OK") /\ driver' = Given(TRUE, NoBlock, NoBlock, 0)
         /\ driver = Given(TRUE, NoBlock, NoBlock, 0) =>
              Does(t, c, "ENOMEM") /\ driver' = Given(TRUE, NoBlock, NoBlock, 0)
         /\ driver = Given(FALSE, 0, NoBlock, 1) =>
              Does(t, c, "OK") /\ driver' = Given(TRUE, 0, NoBlock, 1)
         /\ thread' = thread
  <1>1. \A memory, device, context, blocks :
          driver = Given(memory, device, context, blocks) =>
            /\ Does(t, c, IF memory THEN "ENOMEM" ELSE "OK")
            /\ driver' = Given(TRUE, device, context, blocks)
    BY DriverCalls DEF Given
  <1>2. thread' = thread
    BY CallMakes DEF CallOps, KernelOps, ServiceOps, lv2
  <1> QED BY <1>1, <1>2

\* The context comes after the memory.
LEMMA ContextAllocates ==
  ASSUME Typed, NEW t \in Threads, Runs(t), NEW c, c = Instruction(t), c.op = "context_allocate"
  PROVE  /\ driver = Given(FALSE, NoBlock, NoBlock, 0) =>
              Does(t, c, "EINVAL") /\ driver' = Given(FALSE, NoBlock, NoBlock, 0)
         /\ driver = Given(TRUE, NoBlock, NoBlock, 0) =>
              Does(t, c, "+0") /\ driver' = Given(TRUE, NoBlock, 0, 3)
         /\ driver = Given(TRUE, 0, NoBlock, 1) =>
              Does(t, c, "+1") /\ driver' = Given(TRUE, 0, 1, 4)
         /\ thread' = thread
  <1>1. Block(0) = "+0" /\ Block(1) = "+1"
    BY DEF Block
  <1>2. driver = Given(FALSE, NoBlock, NoBlock, 0) =>
          Does(t, c, "EINVAL") /\ driver' = Given(FALSE, NoBlock, NoBlock, 0)
    <2> HAVE driver = Given(FALSE, NoBlock, NoBlock, 0)
    <2>1. Does(t, c, "EINVAL") /\ driver' = driver
      BY DriverCalls
    <2> QED BY <2>1 DEF Given
  <1>3. driver = Given(TRUE, NoBlock, NoBlock, 0) =>
          Does(t, c, "+0") /\ driver' = Given(TRUE, NoBlock, 0, 3)
    <2> HAVE driver = Given(TRUE, NoBlock, NoBlock, 0)
    <2>1. /\ Does(t, c, Block(0))
          /\ driver' = [memory |-> TRUE, device |-> NoBlock, context |-> 0, blocks |-> 0 + 3]
      BY DriverCalls
    <2> QED BY <1>1, <2>1, 0 + 3 = 3 DEF Given
  <1>4. driver = Given(TRUE, 0, NoBlock, 1) => Does(t, c, "+1") /\ driver' = Given(TRUE, 0, 1, 4)
    <2> HAVE driver = Given(TRUE, 0, NoBlock, 1)
    <2>1. /\ Does(t, c, Block(1))
          /\ driver' = [memory |-> TRUE, device |-> 0, context |-> 1, blocks |-> 1 + 3]
      BY DriverCalls
    <2> QED BY <1>1, <2>1, 1 + 3 = 4 DEF Given
  <1>5. thread' = thread
    BY CallMakes DEF CallOps, KernelOps, ServiceOps, lv2
  <1> QED BY <1>2, <1>3, <1>4, <1>5

\* The instructions of rsx_initialization.
LEMMA InitializationPrograms ==
  ASSUME test = "rsx_initialization"
  PROVE  LET P == Program(0) IN
         /\ Len(P) = 11
         /\ P[1].op = "memory" /\ P[1].mode = "OK"
         /\ P[2].op = "context_allocate" /\ P[2].mode = "print"
         /\ P[3].op = "memory_allocate" /\ P[3].mode = "ignore"
         /\ P[4].op = "if" /\ P[4].condition = "ok" /\ P[4].arg = 12
         /\ P[5].op = "memory_allocate" /\ P[5].mode = "print"
         /\ P[6].op = "context_allocate" /\ P[6].mode = "ignore"
         /\ P[7].op = "save"
         /\ P[8].op = "device_map" /\ P[8].mode = "ignore"
         /\ P[9].op = "device_map" /\ P[9].mode = "print"
         /\ P[10].op = "print_saved"
         /\ P[11].op = "print" /\ P[11].arg = "sample_finished"
BY DEF Program, Programs, rsx_initialization, Alone, MemoryCall, If, Finished, I, On, sysCell,
   ENSURE_OK, ENSURE_VAL

\* The lines it prints.
LEMMA InitializationText ==
  LET G(n, line) == Grows("rsx_initialization", n, line) IN
  G(1, "EINVAL") /\ G(2, "ENOMEM") /\ G(3, "+3") /\ G(4, "+0") /\ G(5, "sample_finished")
  <1> DEFINE lines == <<"EINVAL", "ENOMEM", "+3", "+0", "sample_finished">>
  <1>1. Expected["rsx_initialization"] = {lines}
    BY DEF Expected
  <1>2. /\ lines[1] = "EINVAL" /\ lines[2] = "ENOMEM" /\ lines[3] = "+3" /\ lines[4] = "+0"
        /\ lines[5] = "sample_finished"
    OBVIOUS
  <1> HIDE DEF lines
  <1>3. \A n \in Nat \ {0} : Grows("rsx_initialization", n, lines[n])
    BY <1>1, OnlyConsole
  <1> QED BY <1>2, <1>3

\* How many there are.
LEMMA InitializationLines ==
  /\ InitShown[1] = 0 /\ InitShown[2] = 0 /\ InitShown[10] = 3 /\ InitShown[11] = 4
  /\ InitShown[12] = 5
  /\ \A n \in 3..5 : InitShown[n] = 1
  /\ \A n \in 6..9 : InitShown[n] = 2
BY DEF InitShown

\* The context needs the memory, which is allocated once, and the device is mapped after it.
LEMMA InitializationKept ==
  ASSUME KInv, Initialization, NEW t \in Threads, Runs(t) PROVE Initialization'
  <1> SUFFICES ASSUME test = "rsx_initialization" PROVE Initialization'
    BY AtInstruction DEF Initialization
  <1>1. /\ t = 0 /\ test' = test /\ Typed /\ ~failed /\ pos[0] \in 1..Len(Program(0))
        /\ Instruction(0) = Program(0)[pos[0]] /\ 0 \in Threads
    BY MainRuns DEF Initialization
  <1>2. /\ pos[0] \in 1..11 /\ Lone /\ Shown(InitShown[pos[0]])
        /\ pos[0] < 4 => driver = Given(FALSE, NoBlock, NoBlock, 0)
        /\ pos[0] \in 4..6 => driver = Given(TRUE, NoBlock, NoBlock, 0)
        /\ pos[0] \in 7..8 => driver = Given(TRUE, NoBlock, 0, 3)
        /\ pos[0] > 8 => driver = Given(TRUE, 3, 0, 4)
        /\ pos[0] = 4 => ret[0] = "OK"
        /\ pos[0] = 7 => ret[0] = "+0"
        /\ pos[0] > 7 => saved = "+0"
    BY <1>1, InitializationPrograms DEF Initialization
  \* What is left to show of a step.
  <1>3. ASSUME NEW text, Step(0, pos[0] + 1, text), thread' = thread,
               text \in Text(test, InitShown[pos[0] + 1]),
               pos[0] + 1 < 4 => driver' = Given(FALSE, NoBlock, NoBlock, 0),
               pos[0] + 1 \in 4..6 => driver' = Given(TRUE, NoBlock, NoBlock, 0),
               pos[0] + 1 \in 7..8 => driver' = Given(TRUE, NoBlock, 0, 3),
               pos[0] + 1 > 8 => driver' = Given(TRUE, 3, 0, 4),
               pos[0] + 1 = 4 => ret'[0] = "OK",
               pos[0] + 1 = 7 => ret'[0] = "+0",
               pos[0] + 1 > 7 => saved' = "+0"
        PROVE  Initialization'
    <2>1. pos'[0] = pos[0] + 1 /\ test' = test /\ ~failed' /\ console' = text
      BY <1>3 DEF Step
    <2>2. Lone'
      BY <1>2, <1>3, StaysLone
    <2> QED BY <1>3, <2>1, <2>2 DEF Initialization, Shown
  <1>4. ASSUME NEW line, NEW n \in Nat, Grows(test, n, line), InitShown[pos[0]] = n - 1
        PROVE  Append(console, line) \in Text(test, n)
    BY <1>2, <1>4 DEF Shown, Grows
  <1>5. console \in Text(test, InitShown[pos[0]])
    BY <1>2 DEF Shown
  <1>16. CASE pos[0] = 1
    <2>1. driver = Given(FALSE, NoBlock, NoBlock, 0)
      BY <1>2, <1>16
    <2>2. Program(0)[1].op = "memory" /\ Program(0)[1].mode = "OK"
      BY InitializationPrograms
    <2>3. /\ Step(0, pos[0] + 1, console) /\ UNCHANGED <<thread, saved, driver>>
      <3>1. Does(0, Program(0)[1], "OK") /\ UNCHANGED <<lv2, services>>
        BY <1>1, <1>16, <2>2, MemoryCalls
      <3> QED BY <1>1, <1>16, <2>2, <3>1, Passes DEF Returns, lv2, services
    <2>4. console \in Text(test, InitShown[pos[0] + 1])
      BY <1>5, <1>16, InitializationLines
    <2> QED BY <1>3, <1>16, <2>1, <2>3, <2>4
  <1>6. CASE pos[0] = 2
    <2>1. driver = Given(FALSE, NoBlock, NoBlock, 0)
      BY <1>2, <1>6
    <2>2. Program(0)[2].op = "context_allocate" /\ Program(0)[2].mode = "print"
      BY InitializationPrograms
    <2>3. /\ Step(0, pos[0] + 1, Append(console, "EINVAL")) /\ UNCHANGED <<thread, saved>>
          /\ driver' = Given(FALSE, NoBlock, NoBlock, 0)
      BY <1>1, <1>6, <2>1, <2>2, ContextAllocates, Tells DEF Returns
    <2>4. Append(console, "EINVAL") \in Text(test, InitShown[pos[0] + 1])
      BY <1>4, <1>6, InitializationLines, InitializationText
    <2> QED BY <1>3, <1>6, <2>1, <2>3, <2>4
  <1>7. CASE pos[0] = 3
    <2>1. driver = Given(FALSE, NoBlock, NoBlock, 0)
      BY <1>2, <1>7
    <2>2. Program(0)[3].op = "memory_allocate" /\ Program(0)[3].mode = "ignore"
      BY InitializationPrograms
    <2>3. /\ Step(0, pos[0] + 1, console) /\ UNCHANGED <<thread, saved>> /\ ret'[0] = "OK"
          /\ driver' = Given(TRUE, NoBlock, NoBlock, 0)
      <3>1. /\ Does(0, Program(0)[3], "OK") /\ driver' = Given(TRUE, NoBlock, NoBlock, 0)
            /\ thread' = thread
        BY <1>1, <1>7, <2>1, <2>2, MemoryAllocates
      <3> QED BY <1>1, <1>7, <2>2, <3>1, Passes DEF Returns
    <2>4. console \in Text(test, InitShown[pos[0] + 1])
      BY <1>5, <1>7, InitializationLines
    <2> QED BY <1>3, <1>7, <2>1, <2>3, <2>4
  <1>8. CASE pos[0] = 4
    <2>1. ret[0] = "OK" /\ driver = Given(TRUE, NoBlock, NoBlock, 0)
      BY <1>2, <1>8
    <2>2. Program(0)[4].op = "if" /\ Program(0)[4].condition = "ok" /\ Program(0)[4].arg = 12
      BY InitializationPrograms
    <2>3. Holds(0, "ok")
      BY <2>1, HoldsIs
    <2>4. /\ Step(0, pos[0] + 1, console) /\ UNCHANGED <<thread, driver, saved, ret>>
      BY <1>1, <1>8, <2>2, <2>3, Branches DEF Moves, Step, lv2, services
    <2>5. console \in Text(test, InitShown[pos[0] + 1])
      BY <1>5, <1>8, InitializationLines
    <2> QED BY <1>3, <1>8, <2>1, <2>4, <2>5
  <1>9. CASE pos[0] = 5
    <2>1. driver = Given(TRUE, NoBlock, NoBlock, 0)
      BY <1>2, <1>9
    <2>2. Program(0)[5].op = "memory_allocate" /\ Program(0)[5].mode = "print"
      BY InitializationPrograms
    <2>3. /\ Step(0, pos[0] + 1, Append(console, "ENOMEM")) /\ UNCHANGED <<thread, saved>>
          /\ driver' = Given(TRUE, NoBlock, NoBlock, 0)
      <3>1. /\ Does(0, Program(0)[5], "ENOMEM") /\ driver' = Given(TRUE, NoBlock, NoBlock, 0)
            /\ thread' = thread
        BY <1>1, <1>9, <2>1, <2>2, MemoryAllocates
      <3> QED BY <1>1, <1>9, <2>2, <3>1, Tells DEF Returns
    <2>4. Append(console, "ENOMEM") \in Text(test, InitShown[pos[0] + 1])
      BY <1>4, <1>9, InitializationLines, InitializationText
    <2> QED BY <1>3, <1>9, <2>1, <2>3, <2>4
  <1>10. CASE pos[0] = 6
    <2>1. driver = Given(TRUE, NoBlock, NoBlock, 0)
      BY <1>2, <1>10
    <2>2. Program(0)[6].op = "context_allocate" /\ Program(0)[6].mode = "ignore"
      BY InitializationPrograms
    <2>3. /\ Step(0, pos[0] + 1, console) /\ UNCHANGED <<thread, saved>> /\ ret'[0] = "+0"
          /\ driver' = Given(TRUE, NoBlock, 0, 3)
      <3>1. Does(0, Program(0)[6], "+0") /\ driver' = Given(TRUE, NoBlock, 0, 3) /\ thread' = thread
        BY <1>1, <1>10, <2>1, <2>2, ContextAllocates
      <3> QED BY <1>1, <1>10, <2>2, <3>1, Passes DEF Returns
    <2>4. console \in Text(test, InitShown[pos[0] + 1])
      BY <1>5, <1>10, InitializationLines
    <2> QED BY <1>3, <1>10, <2>1, <2>3, <2>4
  <1>11. CASE pos[0] = 7
    <2>1. Program(0)[7].op = "save"
      BY InitializationPrograms
    <2>2. /\ Step(0, pos[0] + 1, console) /\ UNCHANGED <<thread, driver>> /\ saved' = "+0"
      <3>1. /\ saved' = ret[0] /\ Moves(0, pos[0] + 1)
            /\ UNCHANGED <<lv2, services, test, ret, array, failed, console>>
        BY <1>1, <1>11, <2>1, Writes
      <3> QED BY <1>1, <1>2, <1>11, <3>1 DEF Moves, Step, lv2, services
    <2>3. console \in Text(test, InitShown[pos[0] + 1])
      BY <1>5, <1>11, InitializationLines
    <2> QED BY <1>2, <1>3, <1>11, <2>2, <2>3
  <1>12. CASE pos[0] = 8
    <2>1. saved = "+0" /\ driver = Given(TRUE, NoBlock, 0, 3)
      BY <1>2, <1>12
    <2>2. Program(0)[8].op = "device_map" /\ Program(0)[8].mode = "ignore"
      BY InitializationPrograms
    <2>3. /\ Step(0, pos[0] + 1, console) /\ UNCHANGED <<thread, saved>>
          /\ driver' = Given(TRUE, 3, 0, 4)
      <3>1. Does(0, Program(0)[8], "+3") /\ driver' = Given(TRUE, 3, 0, 4) /\ thread' = thread
        BY <1>1, <1>12, <2>1, <2>2, DeviceMaps
      <3> QED BY <1>1, <1>12, <2>1, <2>2, <3>1, Passes DEF Returns
    <2>4. console \in Text(test, InitShown[pos[0] + 1])
      BY <1>5, <1>12, InitializationLines
    <2> QED BY <1>3, <1>12, <2>1, <2>3, <2>4
  <1>13. CASE pos[0] = 9
    <2>1. saved = "+0" /\ driver = Given(TRUE, 3, 0, 4)
      BY <1>2, <1>13
    <2>2. Program(0)[9].op = "device_map" /\ Program(0)[9].mode = "print"
      BY InitializationPrograms
    <2>3. /\ Step(0, pos[0] + 1, Append(console, "+3")) /\ UNCHANGED <<thread, saved>>
          /\ driver' = Given(TRUE, 3, 0, 4)
      <3>1. Does(0, Program(0)[9], "+3") /\ driver' = Given(TRUE, 3, 0, 4) /\ thread' = thread
        BY <1>1, <1>13, <2>1, <2>2, DeviceMaps
      <3> QED BY <1>1, <1>13, <2>1, <2>2, <3>1, Tells DEF Returns
    <2>4. Append(console, "+3") \in Text(test, InitShown[pos[0] + 1])
      BY <1>4, <1>13, InitializationLines, InitializationText
    <2> QED BY <1>3, <1>13, <2>1, <2>3, <2>4
  <1>14. CASE pos[0] = 10
    <2>1. saved = "+0" /\ driver = Given(TRUE, 3, 0, 4)
      BY <1>2, <1>14
    <2>2. Program(0)[10].op = "print_saved"
      BY InitializationPrograms
    <2>3. /\ Step(0, pos[0] + 1, Append(console, "+0")) /\ UNCHANGED <<thread, driver, saved>>
      <3>1. /\ console' = Append(console, saved) /\ Moves(0, pos[0] + 1)
            /\ UNCHANGED <<lv2, services, test, ret, saved, signal, array, failed>>
        BY <1>1, <1>14, <2>2, Lines
      <3> QED BY <1>1, <2>1, <3>1 DEF Moves, Step, lv2, services
    <2>4. Append(console, "+0") \in Text(test, InitShown[pos[0] + 1])
      BY <1>4, <1>14, InitializationLines, InitializationText
    <2> QED BY <1>3, <1>14, <2>1, <2>3, <2>4
  <1>15. CASE pos[0] = 11
    <2>1. Program(0)[11].op = "print" /\ Program(0)[11].arg = "sample_finished"
      BY InitializationPrograms
    <2>2. /\ Step(0, pos[0] + 1, Append(console, "sample_finished"))
          /\ UNCHANGED <<thread, driver, saved>>
      <3>1. /\ console' = Append(console, "sample_finished") /\ Moves(0, pos[0] + 1)
            /\ UNCHANGED <<lv2, services, test, ret, saved, signal, array, failed>>
        BY <1>1, <1>15, <2>1, Lines
      <3> QED BY <1>1, <3>1 DEF Moves, Step, lv2, services
    <2>3. Append(console, "sample_finished") \in Text(test, InitShown[pos[0] + 1])
      BY <1>4, <1>15, InitializationLines, InitializationText
    <2> QED BY <1>2, <1>3, <1>15, <2>2, <2>3
  <1> QED BY <1>2, <1>6, <1>7, <1>8, <1>9, <1>10, <1>11, <1>12, <1>13, <1>14, <1>15, <1>16

\* The instructions of the tests that map the device, the memory and the context.
LEMMA BasePrograms ==
  ASSUME test \in {"rsx_iounmap", "rsx_base_address"}
  PROVE  LET P == Program(0)
             n == IF test = "rsx_iounmap" THEN 8 ELSE 5
         IN
         /\ Len(P) = n
         /\ P[1 + Before].op = "device_map" /\ P[1 + Before].mode = "print"
         /\ P[2 + Before].op = "memory_allocate" /\ P[2 + Before].mode = "print"
         /\ P[3 + Before].op = "context_allocate" /\ P[3 + Before].mode = "print"
         /\ test = "rsx_base_address" => P[1].op = "memory" /\ P[1].mode = "print"
         /\ test = "rsx_iounmap" => /\ \A i \in 4..6 : P[i].op = "memory" /\ P[i].mode = "print"
                                    /\ P[7].op = "iounmap" /\ P[7].mode = "print"
         /\ P[n].op = "print" /\ P[n].arg = "sample_finished"
  <1> DEFINE A == sysCell(I("device_map"))
             B == sysCell(I("memory_allocate"))
             C == sysCell(I("context_allocate"))
             M == sysCell(MemoryCall)
             N == sysCell(I("iounmap"))
  <1>1. /\ A.op = "device_map" /\ A.mode = "print" /\ B.op = "memory_allocate" /\ B.mode = "print"
        /\ C.op = "context_allocate" /\ C.mode = "print" /\ M.op = "memory" /\ M.mode = "print"
        /\ N.op = "iounmap" /\ N.mode = "print"
        /\ Finished.op = "print" /\ Finished.arg = "sample_finished"
    BY DEF MemoryCall, Finished, I, On, sysCell
  <1>2. CASE test = "rsx_iounmap"
    <2>1. Repeat(3, M) = <<M, M, M>>
      BY DEF Repeat
    <2>2. Program(0) = <<A, B, C>> \o <<M, M, M>> \o <<N, Finished>>
      BY <1>2, <2>1 DEF Program, Programs, rsx_iounmap, DeviceMemoryContext, Alone
    <2> HIDE DEF A, B, C, M, N
    <2>3. Program(0) = <<A, B, C, M, M, M, N, Finished>>
      BY <2>2
    <2> QED BY <1>1, <1>2, <2>3 DEF Before
  <1>3. CASE test = "rsx_base_address"
    <2>1. Program(0) = <<M>> \o <<A, B, C>> \o <<Finished>>
      BY <1>3 DEF Program, Programs, rsx_base_address, DeviceMemoryContext, Alone
    <2> HIDE DEF A, B, C, M, N
    <2>2. Program(0) = <<M, A, B, C, Finished>>
      BY <2>1
    <2> QED BY <1>1, <1>3, <2>2 DEF Before
  <1> QED BY <1>2, <1>3

\* The lines it prints.
LEMMA IounmapText ==
  LET G(n, line) == Grows("rsx_iounmap", n, line) IN
  /\ G(1, "+0") /\ G(2, "OK") /\ G(3, "+1") /\ (\A n \in 4..7 : G(n, "OK"))
  /\ G(8, "sample_finished")
  <1> DEFINE lines == <<"+0", "OK", "+1", "OK", "OK", "OK", "OK", "sample_finished">>
  <1>1. Expected["rsx_iounmap"] = {lines}
    BY DEF Expected
  <1>2. /\ lines[1] = "+0" /\ lines[2] = "OK" /\ lines[3] = "+1"
        /\ \A n \in 4..7 : lines[n] = "OK"
        /\ lines[8] = "sample_finished"
    OBVIOUS
  <1> HIDE DEF lines
  <1>3. \A n \in Nat \ {0} : Grows("rsx_iounmap", n, lines[n])
    BY <1>1, OnlyConsole
  <1> QED BY <1>2, <1>3

\* The lines it prints.
LEMMA BaseText ==
  LET G(n, line) == Grows("rsx_base_address", n, line) IN
  G(1, "OK") /\ G(2, "+0") /\ G(3, "OK") /\ G(4, "+1") /\ G(5, "sample_finished")
  <1> DEFINE lines == <<"OK", "+0", "OK", "+1", "sample_finished">>
  <1>1. Expected["rsx_base_address"] = {lines}
    BY DEF Expected
  <1>2. /\ lines[1] = "OK" /\ lines[2] = "+0" /\ lines[3] = "OK" /\ lines[4] = "+1"
        /\ lines[5] = "sample_finished"
    OBVIOUS
  <1> HIDE DEF lines
  <1>3. \A n \in Nat \ {0} : Grows("rsx_base_address", n, lines[n])
    BY <1>1, OnlyConsole
  <1> QED BY <1>2, <1>3

\* The three calls one after the other.
LEMMA GivesInTurn ==
  ASSUME Typed, NEW t \in Threads, Runs(t), NEW c, c = Instruction(t)
  PROVE  /\ c.op = "device_map" /\ driver = NothingGiven =>
              Does(t, c, "+0") /\ driver' = DeviceGiven /\ thread' = thread
         /\ c.op = "memory_allocate" /\ driver = DeviceGiven =>
              Does(t, c, "OK") /\ driver' = MemoryGiven /\ thread' = thread
         /\ c.op = "context_allocate" /\ driver = MemoryGiven =>
              Does(t, c, "+1") /\ driver' = AllGiven /\ thread' = thread
  <1>1. c.op = "device_map" /\ driver = NothingGiven =>
          Does(t, c, "+0") /\ driver' = DeviceGiven /\ thread' = thread
    BY DeviceMaps DEF NothingGiven, DeviceGiven
  <1>2. c.op = "memory_allocate" /\ driver = DeviceGiven =>
          Does(t, c, "OK") /\ driver' = MemoryGiven /\ thread' = thread
    BY MemoryAllocates DEF DeviceGiven, MemoryGiven
  <1>3. c.op = "context_allocate" /\ driver = MemoryGiven =>
          Does(t, c, "+1") /\ driver' = AllGiven /\ thread' = thread
    BY ContextAllocates DEF MemoryGiven, AllGiven
  <1> QED BY <1>1, <1>2, <1>3

\* Main's calls, until it waits for the thread.
LEMMA MainKeepsUnmap ==
  ASSUME KInv, UnmapEvents, test \in RsxTests, 0 \in Threads, Runs(0)
  PROVE  UnmapEvents'
  <1> DEFINE P == Program(0)
             I0 == P[pos[0]]
  <1>1. /\ thread[0] = "runs" /\ test' = test /\ Typed /\ ~failed
        /\ pos[0] \in 1..Len(P) /\ Instruction(0) = I0 /\ pos[0] \in Nat
    BY AtInstruction
  <1> 1 \in Threads \ {0}
    BY DEF Threads
  <1>2. /\ Single /\ queue = "open" /\ timer.state = "none" /\ notified = "none"
        /\ thread[1] # "ended" /\ pos[0] <= JoinAt /\ pos[1] < 5 /\ Awaited
        /\ MappedAt(pos[0]) /\ UnmapLines
        /\ pos[0] <= UnmapAt => ~Held
        /\ pos[1] = 2 => ret[1] \in {"vblank", "unmapped"}
        /\ pos[1] = 3 => ret[1] = "unmapped"
        /\ Held => Shown(4)
    BY DEF UnmapEvents
  <1>3. /\ UnmapAt' = UnmapAt /\ JoinAt' = JoinAt /\ UnmapAt \in 7..9 /\ JoinAt \in 8..11
        /\ UnmapAt < JoinAt /\ \A p : UnmapShown(p)' = UnmapShown(p)
    BY <1>1, UnmapPlaces
  <1>4. Len(events) \in Nat /\ events \in Seq({"event", "vblank", "unmapped"})
    BY <1>1 DEF Typed, Lv2Typed, Queued
  \* What is left to show of a step.
  <1>5. ASSUME NEW text, Step(0, pos[0] + 1, text), pos[0] < JoinAt, ret'[1] = ret[1],
               UNCHANGED <<queue, timer, notified>>, thread'[1] # "ended", Single',
               MappedAt(pos[0])', UnmapLines', Held => Shown(4)', Awaited'
        PROVE  UnmapEvents'
    <2>1. pos'[0] = pos[0] + 1 /\ pos'[1] = pos[1] /\ ~failed'
      BY <1>5 DEF Step
    <2>2. Held' <=> Held
      BY <1>5, <2>1 DEF Held
    <2>3. pos'[0] <= JoinAt' /\ (pos'[0] <= UnmapAt' => ~Held')
      BY <1>1, <1>2, <1>3, <1>5, <2>1, <2>2
    <2> QED BY <1>2, <1>5, <2>1, <2>2, <2>3 DEF UnmapEvents
  \* Before the unmap the thread has only blanks.
  <1>6. ASSUME NEW text, pos[0] < UnmapAt, Step(0, pos[0] + 1, text), ret'[1] = ret[1],
               UNCHANGED <<queue, timer, notified, events>>, thread'[1] # "ended", Single',
               MappedAt(pos[0])', NEW m, m = UnmapShown(pos[0] + 1), Shown(m)'
        PROVE  UnmapEvents'
    <2>1. \A i \in 1..Len(events) : events[i] = "vblank"
      BY <1>1, <1>2, <1>3, <1>6 DEF Awaited
    <2>2. Awaited'
      BY <1>6, <2>1 DEF Awaited
    <2>3. UnmapLines'
      BY <1>3, <1>6 DEF UnmapLines, UnmapShown, Shown, Step
    <2>4. ~Held
      BY <1>1, <1>2, <1>3, <1>6
    <2>5. pos[0] < JoinAt
      BY <1>1, <1>3, <1>6
    <2> QED BY <1>5, <1>6, <2>2, <2>3, <2>4, <2>5
  <1>7. pos[0] <= UnmapAt => Shown(UnmapShown(pos[0]))
    BY <1>1, <1>2, <1>3 DEF UnmapLines
  <1>8. CASE pos[0] = 1
    <2>1. I0.op = "device_map" /\ I0.mode = "print"
      BY <1>8, UnmapPrograms
    <2>2. driver = NothingGiven
      BY <1>2, <1>8 DEF MappedAt
    <2>3. /\ Does(0, I0, "+0") /\ driver' = DeviceGiven
          /\ UNCHANGED <<thread, queue, events, timer, notified>>
      BY <1>1, <2>1, <2>2, GivesInTurn, DriverAside DEF lv2
    <2>4. Step(0, pos[0] + 1, Append(console, "+0")) /\ ret'[1] = ret[1]
      BY <1>1, <2>1, <2>3, Tells DEF Returns
    <2>5. Shown(1)'
      <3>1. Shown(0) /\ Grows(test, 1, "+0") /\ 1 \in Nat /\ 0 = 1 - 1
        BY <1>7, <1>8, <1>1, <1>3, UnmapPlaces, UnmapText
      <3> QED BY <2>4, <3>1, Says
    <2>6. MappedAt(pos[0])' /\ Single'
      BY <1>2, <1>8, <2>3, <2>4 DEF MappedAt, Step, Single
    <2> QED BY <1>1, <1>2, <1>3, <1>6, <1>8, <2>3, <2>4, <2>5, <2>6, UnmapPlaces
  <1>9. CASE pos[0] = 2
    <2>1. I0.op = "memory_allocate" /\ I0.mode = "print"
      BY <1>9, UnmapPrograms
    <2>2. driver = DeviceGiven
      BY <1>2, <1>9 DEF MappedAt
    <2>3. /\ Does(0, I0, "OK") /\ driver' = MemoryGiven
          /\ UNCHANGED <<thread, queue, events, timer, notified>>
      BY <1>1, <2>1, <2>2, GivesInTurn, DriverAside DEF lv2
    <2>4. Step(0, pos[0] + 1, Append(console, "OK")) /\ ret'[1] = ret[1]
      BY <1>1, <2>1, <2>3, Tells DEF Returns
    <2>5. Shown(2)'
      <3>1. Shown(1) /\ Grows(test, 2, "OK") /\ 2 \in Nat /\ 1 = 2 - 1
        BY <1>7, <1>9, <1>1, <1>3, UnmapPlaces, UnmapText
      <3> QED BY <2>4, <3>1, Says
    <2>6. MappedAt(pos[0])' /\ Single'
      BY <1>2, <1>9, <2>3, <2>4 DEF MappedAt, Step, Single
    <2> QED BY <1>1, <1>2, <1>3, <1>6, <1>9, <2>3, <2>4, <2>5, <2>6, UnmapPlaces
  <1>10. CASE pos[0] = 3
    <2>1. I0.op = "context_allocate" /\ I0.mode = "print"
      BY <1>10, UnmapPrograms
    <2>2. driver = MemoryGiven
      BY <1>2, <1>10 DEF MappedAt
    <2>3. /\ Does(0, I0, "+1") /\ driver' = AllGiven
          /\ UNCHANGED <<thread, queue, events, timer, notified>>
      BY <1>1, <2>1, <2>2, GivesInTurn, DriverAside DEF lv2
    <2>4. Step(0, pos[0] + 1, Append(console, "+1")) /\ ret'[1] = ret[1]
      BY <1>1, <2>1, <2>3, Tells DEF Returns
    <2>5. Shown(3)'
      <3>1. Shown(2) /\ Grows(test, 3, "+1") /\ 3 \in Nat /\ 2 = 3 - 1
        BY <1>7, <1>10, <1>1, <1>3, UnmapPlaces, UnmapText
      <3> QED BY <2>4, <3>1, Says
    <2>6. MappedAt(pos[0])' /\ Single'
      BY <1>2, <1>10, <2>3, <2>4 DEF MappedAt, Step, Single
    <2> QED BY <1>1, <1>2, <1>3, <1>6, <1>10, <2>3, <2>4, <2>5, <2>6, UnmapPlaces
  \* From here on the driver has given all.
  <1>11. pos[0] > 3 => driver = AllGiven
    BY <1>2 DEF MappedAt
  <1>12. ASSUME pos[0] > 3, NEW text, Step(0, pos[0] + 1, text), driver' = driver
         PROVE  MappedAt(pos[0])'
    BY <1>1, <1>11, <1>12 DEF MappedAt, Step
  <1>13. CASE pos[0] = 4
    <2>1. I0.op = "thread_create" /\ I0.arg = 1 /\ I0.mode = "OK"
      BY <1>13, UnmapPrograms
    <2>2. /\ Does(0, I0, "OK") /\ thread'[1] = "runs"
          /\ \A u \in Threads \ {1} : thread'[u] = thread[u]
          /\ UNCHANGED <<queue, events, timer, notified, driver>>
      BY <1>1, <2>1, Creates DEF services
    <2>3. Step(0, pos[0] + 1, console) /\ ret'[1] = ret[1]
      BY <1>1, <2>1, <2>2, Passes DEF Returns
    <2>4. Shown(3)'
      <3>1. Shown(3)
        BY <1>7, <1>13, <1>1, <1>3, UnmapPlaces
      <3> QED BY <2>3, <3>1 DEF Shown, Step
    <2>5. Single'
      BY <1>2, <2>2 DEF Single, Threads
    <2>6. MappedAt(pos[0])'
      BY <1>12, <1>13, <2>2, <2>3
    <2>7. UnmapShown(5) = 3
      BY <1>1, <1>3, UnmapPlaces
    <2> QED BY <1>3, <1>6, <1>13, <2>2, <2>3, <2>4, <2>5, <2>6, <2>7
  <1>14. CASE pos[0] \in 5..(UnmapAt - 2)
    <2>1. I0.op = "memory" /\ I0.mode \in {"ignore", "OK"}
      BY <1>3, <1>14, UnmapPrograms
    <2>2. Does(0, I0, "OK") /\ UNCHANGED <<thread, queue, events, timer, notified, driver>>
      BY <1>1, <2>1, MemoryCalls DEF lv2, services
    <2>3. Step(0, pos[0] + 1, console) /\ ret'[1] = ret[1]
      BY <1>1, <2>1, <2>2, Passes DEF Returns
    <2>4. UnmapShown(pos[0]) = 3 /\ UnmapShown(pos[0] + 1) = 3
      BY <1>1, <1>3, <1>14, UnmapPlaces
    <2>5. pos[0] < UnmapAt /\ pos[0] > 3
      BY <1>3, <1>14
    <2>6. Shown(3)'
      <3>1. Shown(3)
        BY <1>1, <1>3, <1>7, <2>4, <2>5
      <3> QED BY <2>3, <3>1 DEF Shown, Step
    <2>7. MappedAt(pos[0])' /\ Single'
      BY <1>2, <1>12, <2>2, <2>3, <2>5 DEF Single
    <2> QED BY <1>2, <1>6, <2>2, <2>3, <2>4, <2>5, <2>6, <2>7
  <1>15. CASE pos[0] = UnmapAt - 1
    <2>1. I0.op = "iomap" /\ I0.mode = "print"
      BY <1>15, UnmapPrograms
    <2>2. Does(0, I0, "OK") /\ UNCHANGED <<thread, queue, events, timer, notified, driver>>
      BY <1>1, <2>1, IoCalls DEF services
    <2>3. Step(0, pos[0] + 1, Append(console, "OK")) /\ ret'[1] = ret[1]
      BY <1>1, <2>1, <2>2, Tells DEF Returns
    <2>4. UnmapShown(pos[0]) = 3 /\ UnmapShown(pos[0] + 1) = 4
      BY <1>1, <1>3, <1>15, UnmapPlaces
    <2>5. pos[0] < UnmapAt /\ pos[0] > 3
      BY <1>3, <1>15
    <2>6. Shown(4)'
      <3>1. Shown(3) /\ Grows(test, 4, "OK") /\ 4 \in Nat /\ 3 = 4 - 1
        BY <1>1, <1>3, <1>7, <2>4, <2>5, UnmapText
      <3> QED BY <2>3, <3>1, Says
    <2>7. MappedAt(pos[0])' /\ Single'
      BY <1>2, <1>12, <2>2, <2>3, <2>5 DEF Single
    <2> QED BY <1>2, <1>6, <2>2, <2>3, <2>4, <2>5, <2>6, <2>7
  <1>16. CASE pos[0] = UnmapAt
    <2>1. I0.op = "unmap" /\ I0.mode = "OK"
      BY <1>16, UnmapPrograms
    <2>2. /\ Does(0, I0, "OK") /\ UNCHANGED <<thread, queue, timer, notified, driver>>
          /\ events' = events \/ events' = Append(events, "unmapped")
      BY <1>1, <2>1, IoCalls DEF services
    <2>3. Step(0, pos[0] + 1, console) /\ ret'[1] = ret[1]
      BY <1>1, <2>1, <2>2, Passes DEF Returns
    <2>4. UnmapShown(pos[0]) = 4 /\ UnmapShown(pos[0] + 1) = 4
      BY <1>1, <1>3, <1>16, UnmapPlaces
    <2>5. Shown(4)' /\ ~Held
      <3>1. Shown(4) /\ ~Held
        BY <1>1, <1>2, <1>3, <1>7, <1>16, <2>4
      <3> QED BY <2>3, <3>1 DEF Shown, Step
    <2>6. MappedAt(pos[0])' /\ Single'
      BY <1>2, <1>3, <1>12, <1>16, <2>2, <2>3 DEF Single
    <2>7. UnmapLines'
      BY <1>3, <2>3, <2>4, <2>5 DEF UnmapLines, Step
    <2>8. \A i \in 1..Len(events) : events[i] = "vblank"
      BY <1>1, <1>2, <1>3, <1>16 DEF Awaited
    <2>9. pos'[0] > UnmapAt' /\ ~Held'
      BY <1>1, <1>3, <1>16, <2>3, <2>5 DEF Held, Step
    <2>10. Awaited'
      <3>1. CASE events' = events
        BY <2>8, <3>1 DEF Awaited
      <3>2. CASE events' = Append(events, "unmapped")
        <4>1. /\ Len(events') = Len(events) + 1 /\ events'[Len(events) + 1] = "unmapped"
              /\ \A i \in 1..Len(events) : events'[i] = events[i]
          BY <1>4, <3>2
        <4>2. ASSUME NEW i \in 1..Len(events')
              PROVE  IF i = Len(events) + 1 THEN events'[i] = "unmapped" ELSE events'[i] = "vblank"
          BY <1>4, <2>8, <4>1
        <4> QED BY <2>5, <2>9, <4>2 DEF Awaited
      <3> QED BY <2>2, <3>1, <3>2
    <2>11. pos[0] < JoinAt
      BY <1>3, <1>16
    <2> QED BY <1>2, <1>5, <2>2, <2>3, <2>5, <2>6, <2>7, <2>10, <2>11
  <1>17. CASE pos[0] \in (UnmapAt + 1)..(JoinAt - 1)
    <2>1. I0.op = "memory" /\ I0.mode \in {"ignore", "OK"}
      BY <1>3, <1>17, UnmapPrograms
    <2>2. Does(0, I0, "OK") /\ UNCHANGED <<thread, queue, events, timer, notified, driver>>
      BY <1>1, <2>1, MemoryCalls DEF lv2, services
    <2>3. Step(0, pos[0] + 1, console) /\ ret'[1] = ret[1]
      BY <1>1, <2>1, <2>2, Passes DEF Returns
    <2>4. UnmapShown(pos[0]) = 4 /\ UnmapShown(pos[0] + 1) = 4
      BY <1>1, <1>3, <1>17, UnmapPlaces
    <2>5. pos[0] > UnmapAt /\ pos[0] > 3 /\ pos[0] < JoinAt
      BY <1>3, <1>17
    <2>6. \A n : Shown(n)' <=> Shown(n)
      BY <1>1, <2>3 DEF Shown, Step
    <2>7. pos'[0] > UnmapAt' /\ (Held' <=> Held)
      BY <1>1, <1>3, <2>3, <2>5 DEF Held, Step
    <2>8. UnmapLines'
      BY <1>2, <1>3, <2>3, <2>4, <2>5, <2>6, <2>7 DEF UnmapLines, Step
    <2>9. MappedAt(pos[0])' /\ Single'
      BY <1>2, <1>12, <2>2, <2>3, <2>5 DEF Single
    <2>10. Awaited'
      BY <1>2, <2>2, <2>6, <2>7 DEF Awaited
    <2> QED BY <1>2, <1>5, <2>2, <2>3, <2>5, <2>6, <2>8, <2>9, <2>10
  <1>18. CASE pos[0] = JoinAt
    <2>1. I0.op = "join" /\ I0.arg = 1
      BY <1>18, UnmapPrograms
    <2> QED BY <1>1, <1>2, <2>1, JoinsEnded
  <1>19. \/ pos[0] \in {1, 2, 3, 4, UnmapAt - 1, UnmapAt, JoinAt}
         \/ pos[0] \in 5..(UnmapAt - 2) \/ pos[0] \in (UnmapAt + 1)..(JoinAt - 1)
    BY <1>1, <1>2, <1>3
  <1> QED BY <1>8, <1>9, <1>10, <1>13, <1>14, <1>15, <1>16, <1>17, <1>18, <1>19

\* So the thread gets one event that is no blank, and main waits for it.
LEMMA UnmapEventsKept ==
  ASSUME KInv, UnmapEvents, NEW t \in Threads, Runs(t) PROVE UnmapEvents'
  <1> SUFFICES ASSUME test \in RsxTests PROVE UnmapEvents'
    BY AtInstruction DEF UnmapEvents
  <1> 0 \in Threads
    BY DEF Threads
  <1> QED BY ThreadKeepsUnmap, MainKeepsUnmap

\* The blocks are those the consoles show, whatever is unmapped.
LEMMA BaseAddressKept ==
  ASSUME KInv, BaseAddress, NEW t \in Threads, Runs(t) PROVE BaseAddress'
  <1> SUFFICES ASSUME test \in {"rsx_iounmap", "rsx_base_address"} PROVE BaseAddress'
    BY AtInstruction DEF BaseAddress
  <1> DEFINE n == IF test = "rsx_iounmap" THEN 8 ELSE 5
  <1>1. /\ t = 0 /\ test' = test /\ Typed /\ ~failed /\ pos[0] \in 1..Len(Program(0))
        /\ Instruction(0) = Program(0)[pos[0]] /\ 0 \in Threads
    BY MainRuns DEF BaseAddress
  <1>2. pos[0] \in 1..n /\ Lone /\ Shown(pos[0] - 1) /\ MappedAt(pos[0] - Before)
    BY <1>1, BasePrograms DEF BaseAddress
  <1>3. Before = (IF test = "rsx_iounmap" THEN 0 ELSE 1) /\ Before' = Before
    BY <1>1 DEF Before
  \* What is left to show of a step.
  <1>4. ASSUME NEW line, Step(0, pos[0] + 1, Append(console, line)), thread' = thread,
               Grows(test, pos[0], line),
               pos[0] = Before => driver' = NothingGiven,
               pos[0] = 1 + Before => driver' = DeviceGiven,
               pos[0] = 2 + Before => driver' = MemoryGiven,
               pos[0] > 2 + Before => driver' = AllGiven
        PROVE  BaseAddress'
    <2>1. pos'[0] = pos[0] + 1 /\ test' = test
      BY <1>4 DEF Step
    <2>2. Lone' /\ Shown(pos[0] - 1)'
      BY <1>2, <1>4, StaysLone, NextShown
    <2>3. MappedAt(pos[0] - Before)'
      <3>1. PICK p \in Nat, b \in 0..1 : p = pos[0] /\ b = Before /\ p > 0
        BY <1>2, <1>3
      <3>2. /\ p = b => driver' = NothingGiven
            /\ p = 1 + b => driver' = DeviceGiven
            /\ p = 2 + b => driver' = MemoryGiven
            /\ p > 2 + b => driver' = AllGiven
        BY <1>4, <3>1
      <3>3. pos'[0] = p + 1 /\ Before' = b
        BY <1>3, <2>1, <3>1
      <3>4. PICK q \in Int : q = pos'[0] - Before' /\ q = p + 1 - b
        BY <3>1, <3>3
      <3>5. /\ q < 2 => driver' = NothingGiven
            /\ q = 2 => driver' = DeviceGiven
            /\ q = 3 => driver' = MemoryGiven
            /\ q > 3 => driver' = AllGiven
        BY <3>1, <3>2, <3>4
      <3> QED BY <3>4, <3>5 DEF MappedAt
    <2> QED BY <2>1, <2>2, <2>3 DEF BaseAddress
  <1>5. CASE pos[0] = 1 + Before
    <2>1. Program(0)[1 + Before].op = "device_map" /\ Program(0)[1 + Before].mode = "print"
      BY BasePrograms
    <2>2. driver = NothingGiven
      BY <1>2, <1>3, <1>5 DEF MappedAt
    <2>3. /\ Does(0, Program(0)[1 + Before], "+0") /\ driver' = DeviceGiven
          /\ thread' = thread
      BY <1>1, <1>5, <2>1, <2>2, GivesInTurn
    <2>4. Step(0, pos[0] + 1, Append(console, "+0"))
      BY <1>1, <2>1, <2>3, Tells
    <2>5. Grows(test, pos[0], "+0")
      BY <1>3, <1>5, IounmapText, BaseText
    <2> QED BY <1>3, <1>4, <1>5, <2>3, <2>4, <2>5
  <1>6. CASE pos[0] = 2 + Before
    <2>1. Program(0)[2 + Before].op = "memory_allocate" /\ Program(0)[2 + Before].mode = "print"
      BY BasePrograms
    <2>2. driver = DeviceGiven
      BY <1>2, <1>3, <1>6 DEF MappedAt
    <2>3. /\ Does(0, Program(0)[2 + Before], "OK") /\ driver' = MemoryGiven
          /\ thread' = thread
      BY <1>1, <1>6, <2>1, <2>2, GivesInTurn
    <2>4. Step(0, pos[0] + 1, Append(console, "OK"))
      BY <1>1, <2>1, <2>3, Tells
    <2>5. Grows(test, pos[0], "OK")
      BY <1>3, <1>6, IounmapText, BaseText
    <2> QED BY <1>3, <1>4, <1>6, <2>3, <2>4, <2>5
  <1>7. CASE pos[0] = 3 + Before
    <2>1. Program(0)[3 + Before].op = "context_allocate" /\ Program(0)[3 + Before].mode = "print"
      BY BasePrograms
    <2>2. driver = MemoryGiven
      BY <1>2, <1>3, <1>7 DEF MappedAt
    <2>3. /\ Does(0, Program(0)[3 + Before], "+1") /\ driver' = AllGiven
          /\ thread' = thread
      BY <1>1, <1>7, <2>1, <2>2, GivesInTurn
    <2>4. Step(0, pos[0] + 1, Append(console, "+1"))
      BY <1>1, <2>1, <2>3, Tells
    <2>5. Grows(test, pos[0], "+1")
      BY <1>3, <1>7, IounmapText, BaseText
    <2> QED BY <1>3, <1>4, <1>7, <2>3, <2>4, <2>5
  <1>8. CASE \/ test = "rsx_iounmap" /\ pos[0] \in 4..6
             \/ test # "rsx_iounmap" /\ pos[0] = 1
    <2>1. Program(0)[pos[0]].op = "memory" /\ Program(0)[pos[0]].mode = "print"
      BY <1>8, BasePrograms
    <2>2. Does(0, Program(0)[pos[0]], "OK") /\ driver' = driver /\ thread' = thread
      BY <1>1, <2>1, MemoryCalls DEF lv2, services
    <2>3. Step(0, pos[0] + 1, Append(console, "OK"))
      BY <1>1, <2>1, <2>2, Tells
    <2>4. Grows(test, pos[0], "OK")
      BY <1>8, IounmapText, BaseText
    <2>5. CASE test = "rsx_iounmap" /\ pos[0] \in 4..6
      <3>1. driver = AllGiven
        BY <1>2, <1>3, <2>5 DEF MappedAt
      <3> QED BY <1>3, <1>4, <2>2, <2>3, <2>4, <2>5, <3>1
    <2>6. CASE test # "rsx_iounmap" /\ pos[0] = 1
      <3>1. driver = NothingGiven
        BY <1>2, <1>3, <2>6 DEF MappedAt
      <3> QED BY <1>3, <1>4, <2>2, <2>3, <2>4, <2>6, <3>1
    <2> QED BY <1>8, <2>5, <2>6
  <1>9. CASE pos[0] = 7
    <2>1. test = "rsx_iounmap" /\ Program(0)[7].op = "iounmap" /\ Program(0)[7].mode = "print"
      BY <1>2, <1>9, BasePrograms
    <2>2. driver = AllGiven
      BY <1>2, <1>3, <1>9 DEF MappedAt
    <2>3. 1 # NoBlock
      BY DEF NoBlock
    <2>4. /\ Does(0, Program(0)[7], IF 1 = NoBlock THEN "EINVAL" ELSE "OK")
          /\ UNCHANGED <<lv2, services>>
      BY <1>1, <1>9, <2>1, <2>2, DriverCalls DEF AllGiven
    <2>5. Does(0, Program(0)[7], "OK") /\ driver' = driver /\ thread' = thread
      BY <2>3, <2>4 DEF lv2, services
    <2>6. Step(0, pos[0] + 1, Append(console, "OK"))
      BY <1>1, <2>1, <2>5, Tells
    <2>7. Grows(test, 7, "OK")
      BY <2>1, IounmapText
    <2> QED BY <1>3, <1>4, <1>9, <2>2, <2>5, <2>6, <2>7
  <1>10. CASE pos[0] = n
    <2>1. Program(0)[pos[0]].op = "print" /\ Program(0)[pos[0]].arg = "sample_finished"
      BY <1>10, BasePrograms
    <2>2. driver = AllGiven
      BY <1>2, <1>3, <1>10 DEF MappedAt
    <2>3. /\ Step(0, pos[0] + 1, Append(console, "sample_finished"))
          /\ driver' = driver /\ thread' = thread
      BY <1>1, <2>1, Lines DEF Moves, Step, lv2, services
    <2>4. Grows(test, pos[0], "sample_finished")
      BY <1>10, IounmapText, BaseText
    <2> QED BY <1>3, <1>4, <1>10, <2>2, <2>3, <2>4
  <1> QED BY <1>2, <1>3, <1>5, <1>6, <1>7, <1>8, <1>9, <1>10

\* The instructions of rsx_base_address_2.
LEMMA Base2Programs ==
  ASSUME test = "rsx_base_address_2"
  PROVE  LET P == Program(0) IN
         /\ Len(P) = 12
         /\ \A n \in 1..2 : P[n].op = "memory" /\ P[n].mode = "OK"
         /\ P[3].op = "device_map" /\ P[3].mode = "ignore"
         /\ \A n \in {4, 7, 9} : P[n].op = "if" /\ P[n].condition = "no_error"
         /\ P[5].op = "save"
         /\ P[6].op = "memory_allocate" /\ P[6].mode = "ignore"
         /\ P[8].op = "context_allocate" /\ P[8].mode = "ignore"
         /\ P[10].op = "print_saved" /\ P[11].op = "print_ret"
         /\ P[12].op = "print" /\ P[12].arg = "sample_finished"
BY DEF Program, Programs, rsx_base_address_2, Alone, MemoryCall, Trap, If, Finished, I, On,
       ENSURE_OK, ENSURE_VAL

\* The lines it prints.
LEMMA Base2Text ==
  LET G(n, line) == Grows("rsx_base_address_2", n, line) IN
  G(1, "+0") /\ G(2, "+1") /\ G(3, "sample_finished")
  <1> DEFINE lines == <<"+0", "+1", "sample_finished">>
  <1>1. Expected["rsx_base_address_2"] = {lines}
    BY DEF Expected
  <1>2. lines[1] = "+0" /\ lines[2] = "+1" /\ lines[3] = "sample_finished"
    OBVIOUS
  <1> HIDE DEF lines
  <1>3. \A n \in Nat \ {0} : Grows("rsx_base_address_2", n, lines[n])
    BY <1>1, OnlyConsole
  <1> QED BY <1>2, <1>3

\* The traps of rsx_base_address_2 are not met.
LEMMA BaseAddress2Kept ==
  ASSUME KInv, BaseAddress2, NEW t \in Threads, Runs(t) PROVE BaseAddress2'
  <1> SUFFICES ASSUME test = "rsx_base_address_2" PROVE BaseAddress2'
    BY AtInstruction DEF BaseAddress2
  <1>1. /\ t = 0 /\ test' = test /\ Typed /\ ~failed /\ pos[0] \in 1..Len(Program(0))
        /\ Instruction(0) = Program(0)[pos[0]] /\ 0 \in Threads
    BY MainRuns DEF BaseAddress2
  <1>2. /\ pos[0] \in 1..12 /\ Lone /\ Shown(Base2Shown[pos[0]])
        /\ pos[0] < 4 => driver = NothingGiven
        /\ pos[0] \in 4..6 => driver = DeviceGiven
        /\ pos[0] \in 7..8 => driver = MemoryGiven
        /\ pos[0] \in 4..5 => ret[0] = "+0"
        /\ pos[0] = 7 => ret[0] = "OK"
        /\ pos[0] > 5 => saved = "+0"
        /\ pos[0] > 8 => ret[0] = "+1"
    BY <1>1, Base2Programs DEF BaseAddress2
  \* What is left to show of a step.
  <1>3. ASSUME NEW text, Step(0, pos[0] + 1, text), thread' = thread,
               text \in Text(test, Base2Shown[pos[0] + 1]),
               pos[0] + 1 < 4 => driver' = NothingGiven,
               pos[0] + 1 \in 4..6 => driver' = DeviceGiven,
               pos[0] + 1 \in 7..8 => driver' = MemoryGiven,
               pos[0] + 1 \in 4..5 => ret'[0] = "+0",
               pos[0] + 1 = 7 => ret'[0] = "OK",
               pos[0] + 1 > 5 => saved' = "+0",
               pos[0] + 1 > 8 => ret'[0] = "+1"
        PROVE  BaseAddress2'
    <2>1. pos'[0] = pos[0] + 1 /\ test' = test /\ ~failed' /\ console' = text
      BY <1>2, <1>3 DEF Step
    <2>2. Lone'
      BY <1>2, <1>3, StaysLone
    <2> QED BY <1>3, <2>1, <2>2 DEF BaseAddress2, Shown
  <1>4. ASSUME NEW line, NEW n \in Nat, Grows(test, n, line), Base2Shown[pos[0]] = n - 1
        PROVE  Append(console, line) \in Text(test, n)
    BY <1>2, <1>4 DEF Shown, Grows
  <1>5. /\ \A n \in 1..10 : Base2Shown[n] = 0
        /\ Base2Shown[11] = 1 /\ Base2Shown[12] = 2 /\ Base2Shown[13] = 3
    BY DEF Base2Shown
  <1>6. pos[0] < 10 => console \in Text(test, Base2Shown[pos[0] + 1])
    BY <1>2, <1>5 DEF Shown
  <1>7. CASE pos[0] \in 1..2
    <2>1. Program(0)[pos[0]].op = "memory" /\ Program(0)[pos[0]].mode = "OK"
      BY <1>7, Base2Programs
    <2>2. Does(0, Program(0)[pos[0]], "OK") /\ driver' = driver /\ thread' = thread
      BY <1>1, <2>1, MemoryCalls DEF lv2, services
    <2>3. Step(0, pos[0] + 1, console)
      BY <1>1, <2>1, <2>2, Passes
    <2> QED BY <1>2, <1>3, <1>6, <1>7, <2>2, <2>3
  <1>8. CASE pos[0] = 3
    <2>1. Program(0)[3].op = "device_map" /\ Program(0)[3].mode = "ignore"
      BY Base2Programs
    <2>2. driver = NothingGiven
      BY <1>2, <1>8
    <2>3. /\ Does(0, Program(0)[3], "+0") /\ driver' = DeviceGiven
          /\ thread' = thread
      BY <1>1, <1>8, <2>1, <2>2, GivesInTurn
    <2>4. Step(0, pos[0] + 1, console) /\ ret'[0] = "+0"
      BY <1>1, <2>1, <2>3, Passes DEF Returns
    <2> QED BY <1>3, <1>6, <1>8, <2>3, <2>4
  <1>9. CASE pos[0] \in {4, 7, 9}
    <2>1. Program(0)[pos[0]].op = "if" /\ Program(0)[pos[0]].condition = "no_error"
      BY <1>9, Base2Programs
    <2>2. ret[0] \notin {"EINVAL", "ENOMEM"}
      BY <1>2, <1>9
    <2>3. Holds(0, "no_error")
      BY <2>2, HoldsIs
    <2>4. Step(0, pos[0] + 1, console) /\ UNCHANGED <<thread, driver, saved, ret>>
      BY <1>1, <2>1, <2>3, Branches DEF Moves, Step, lv2, services
    <2> QED BY <1>2, <1>3, <1>6, <1>9, <2>4
  <1>10. CASE pos[0] = 5
    <2>1. Program(0)[5].op = "save"
      BY Base2Programs
    <2>2. driver = DeviceGiven /\ ret[0] = "+0"
      BY <1>2, <1>10
    <2>3. /\ Step(0, pos[0] + 1, console) /\ saved' = "+0"
          /\ driver' = driver /\ thread' = thread
      BY <1>1, <1>10, <2>1, <2>2, Writes DEF Moves, Step, lv2, services
    <2> QED BY <1>3, <1>6, <1>10, <2>2, <2>3
  <1>11. CASE pos[0] = 6
    <2>1. Program(0)[6].op = "memory_allocate" /\ Program(0)[6].mode = "ignore"
      BY Base2Programs
    <2>2. driver = DeviceGiven /\ saved = "+0"
      BY <1>2, <1>11
    <2>3. /\ Does(0, Program(0)[6], "OK") /\ driver' = MemoryGiven
          /\ thread' = thread
      BY <1>1, <1>11, <2>1, <2>2, GivesInTurn
    <2>4. Step(0, pos[0] + 1, console) /\ saved' = saved /\ ret'[0] = "OK"
      BY <1>1, <2>1, <2>3, Passes DEF Returns
    <2> QED BY <1>3, <1>6, <1>11, <2>2, <2>3, <2>4
  <1>12. CASE pos[0] = 8
    <2>1. Program(0)[8].op = "context_allocate" /\ Program(0)[8].mode = "ignore"
      BY Base2Programs
    <2>2. driver = MemoryGiven /\ saved = "+0"
      BY <1>2, <1>12
    <2>3. Does(0, Program(0)[8], "+1") /\ thread' = thread
      BY <1>1, <1>12, <2>1, <2>2, GivesInTurn
    <2>4. Step(0, pos[0] + 1, console) /\ saved' = saved /\ ret'[0] = "+1"
      BY <1>1, <2>1, <2>3, Passes DEF Returns
    <2> QED BY <1>3, <1>6, <1>12, <2>2, <2>3, <2>4
  <1>13. CASE pos[0] \in 10..12
    <2>1. /\ pos[0] = 10 => Program(0)[pos[0]].op = "print_saved"
          /\ pos[0] = 11 => Program(0)[pos[0]].op = "print_ret"
          /\ pos[0] = 12 => /\ Program(0)[pos[0]].op = "print"
                           /\ Program(0)[pos[0]].arg = "sample_finished"
      BY Base2Programs
    <2> DEFINE line == IF pos[0] = 10 THEN "+0" ELSE IF pos[0] = 11 THEN "+1" ELSE "sample_finished"
    <2>2. saved = "+0" /\ ret[0] = "+1"
      BY <1>2, <1>13
    <2>3. /\ Step(0, pos[0] + 1, Append(console, line))
          /\ saved' = saved /\ ret' = ret /\ thread' = thread
      <3>1. CASE pos[0] = 10
        BY <1>1, <2>1, <2>2, <3>1, Lines DEF Moves, Step, lv2
      <3>2. CASE pos[0] = 11
        BY <1>1, <2>1, <2>2, <3>2, Lines DEF Moves, Step, lv2
      <3>3. CASE pos[0] = 12
        BY <1>1, <2>1, <3>3, Lines DEF Moves, Step, lv2
      <3> QED BY <1>13, <3>1, <3>2, <3>3
    <2>4. /\ Base2Shown[pos[0] + 1] = pos[0] - 9 /\ Base2Shown[pos[0]] = (pos[0] - 9) - 1
          /\ pos[0] - 9 \in Nat
      BY <1>5, <1>13
    <2>5. Grows(test, pos[0] - 9, line)
      BY <1>13, Base2Text
    <2>6. Append(console, line) \in Text(test, Base2Shown[pos[0] + 1])
      BY <1>4, <2>4, <2>5
    <2>7. /\ ~(pos[0] + 1 < 4) /\ pos[0] + 1 \notin 4..6 /\ pos[0] + 1 \notin 7..8
          /\ pos[0] + 1 \notin 4..5 /\ pos[0] + 1 # 7
      BY <1>13
    <2>8. ret'[0] = "+1" /\ saved' = "+0"
      BY <2>2, <2>3
    <2> HIDE DEF line
    <2> QED BY <1>3, <2>3, <2>6, <2>7, <2>8
  <1> QED BY <1>2, <1>7, <1>8, <1>9, <1>10, <1>11, <1>12, <1>13

\* The instructions of rsx_set_reference.
LEMMA ReferencePrograms ==
  ASSUME test = "rsx_set_reference"
  PROVE  LET P == Program(0) IN
         /\ Len(P) = 4
         /\ P[1].op = "device_map" /\ P[1].mode = "ignore"
         /\ P[2].op = "memory_allocate" /\ P[2].mode = "print"
         /\ P[3].op = "context_allocate" /\ P[3].mode = "print"
         /\ P[4].op = "print_ref"
BY DEF Program, Programs, rsx_set_reference, Alone, I, On, sysCell

\* The lines it prints.
LEMMA ReferenceText ==
  LET G(n, line) == Grows("rsx_set_reference", n, line) IN
  G(1, "OK") /\ G(2, "+1") /\ G(3, "REF=0x0")
  <1> DEFINE lines == <<"OK", "+1", "REF=0x0">>
  <1>1. Expected["rsx_set_reference"] = {lines}
    BY DEF Expected
  <1>2. lines[1] = "OK" /\ lines[2] = "+1" /\ lines[3] = "REF=0x0"
    OBVIOUS
  <1> HIDE DEF lines
  <1>3. \A n \in Nat \ {0} : Grows("rsx_set_reference", n, lines[n])
    BY <1>1, OnlyConsole
  <1> QED BY <1>2, <1>3

\* The reference is read where there is a context.
LEMMA ReferenceKept ==
  ASSUME KInv, Reference, NEW t \in Threads, Runs(t) PROVE Reference'
  <1> SUFFICES ASSUME test = "rsx_set_reference" PROVE Reference'
    BY AtInstruction DEF Reference
  <1>1. /\ t = 0 /\ test' = test /\ Typed /\ ~failed /\ pos[0] \in 1..Len(Program(0))
        /\ Instruction(0) = Program(0)[pos[0]] /\ 0 \in Threads
    BY MainRuns DEF Reference
  <1>2. pos[0] \in 1..4 /\ Lone /\ Shown(ReferenceShown[pos[0]]) /\ MappedAt(pos[0])
    BY <1>1, ReferencePrograms DEF Reference
  \* What is left to show of a step.
  <1>3. ASSUME NEW text, Step(0, pos[0] + 1, text), thread' = thread,
               text \in Text(test, ReferenceShown[pos[0] + 1]),
               pos[0] + 1 = 2 => driver' = DeviceGiven,
               pos[0] + 1 = 3 => driver' = MemoryGiven,
               pos[0] + 1 > 3 => driver' = AllGiven
        PROVE  Reference'
    <2>1. pos'[0] = pos[0] + 1 /\ test' = test /\ ~failed' /\ console' = text
      BY <1>3 DEF Step
    <2>2. Lone'
      BY <1>2, <1>3, StaysLone
    <2>3. pos'[0] \in 2..5
      BY <1>2, <2>1
    <2>4. MappedAt(pos[0])'
      BY <1>3, <2>3, <2>1 DEF MappedAt
    <2> QED BY <1>3, <2>1, <2>2, <2>4 DEF Reference, Shown
  <1>4. ASSUME NEW line, NEW n \in Nat, Grows(test, n, line), ReferenceShown[pos[0]] = n - 1
        PROVE  Append(console, line) \in Text(test, n)
    BY <1>2, <1>4 DEF Shown, Grows
  <1>5. console \in Text(test, ReferenceShown[pos[0]])
    BY <1>2 DEF Shown
  <1>6. /\ ReferenceShown[1] = 0 /\ ReferenceShown[2] = 0 /\ ReferenceShown[3] = 1
        /\ ReferenceShown[4] = 2 /\ ReferenceShown[5] = 3
    BY DEF ReferenceShown
  <1>7. CASE pos[0] = 1
    <2>1. Program(0)[1].op = "device_map" /\ Program(0)[1].mode = "ignore"
      BY ReferencePrograms
    <2>2. driver = NothingGiven
      BY <1>2, <1>7 DEF MappedAt
    <2>3. /\ Does(0, Program(0)[1], "+0") /\ driver' = DeviceGiven
          /\ thread' = thread
      BY <1>1, <1>7, <2>1, <2>2, GivesInTurn
    <2>4. Step(0, pos[0] + 1, console)
      BY <1>1, <2>1, <2>3, Passes
    <2>5. console \in Text(test, ReferenceShown[pos[0] + 1])
      BY <1>5, <1>6, <1>7
    <2> QED BY <1>3, <1>7, <2>3, <2>4, <2>5
  <1>8. CASE pos[0] = 2
    <2>1. Program(0)[2].op = "memory_allocate" /\ Program(0)[2].mode = "print"
      BY ReferencePrograms
    <2>2. driver = DeviceGiven
      BY <1>2, <1>8 DEF MappedAt
    <2>3. /\ Does(0, Program(0)[2], "OK") /\ driver' = MemoryGiven
          /\ thread' = thread
      BY <1>1, <1>8, <2>1, <2>2, GivesInTurn
    <2>4. Step(0, pos[0] + 1, Append(console, "OK"))
      BY <1>1, <2>1, <2>3, Tells
    <2>5. Append(console, "OK") \in Text(test, ReferenceShown[pos[0] + 1])
      BY <1>4, <1>6, <1>8, ReferenceText
    <2> QED BY <1>3, <1>8, <2>3, <2>4, <2>5
  <1>9. CASE pos[0] = 3
    <2>1. Program(0)[3].op = "context_allocate" /\ Program(0)[3].mode = "print"
      BY ReferencePrograms
    <2>2. driver = MemoryGiven
      BY <1>2, <1>9 DEF MappedAt
    <2>3. /\ Does(0, Program(0)[3], "+1") /\ driver' = AllGiven
          /\ thread' = thread
      BY <1>1, <1>9, <2>1, <2>2, GivesInTurn
    <2>4. Step(0, pos[0] + 1, Append(console, "+1"))
      BY <1>1, <2>1, <2>3, Tells
    <2>5. Append(console, "+1") \in Text(test, ReferenceShown[pos[0] + 1])
      BY <1>4, <1>6, <1>9, ReferenceText
    <2> QED BY <1>3, <1>9, <2>3, <2>4, <2>5
  <1>10. CASE pos[0] = 4
    <2>1. Program(0)[4].op = "print_ref"
      BY ReferencePrograms
    <2>2. driver = AllGiven
      BY <1>2, <1>10 DEF MappedAt
    <2>3. /\ Step(0, pos[0] + 1, Append(console, "REF=0x0"))
          /\ driver' = driver /\ thread' = thread
      BY <1>1, <1>10, <2>1, Lines DEF Moves, Step, lv2, services
    <2>4. Append(console, "REF=0x0") \in Text(test, ReferenceShown[pos[0] + 1])
      BY <1>4, <1>6, <1>10, ReferenceText
    <2> QED BY <1>3, <1>10, <2>2, <2>3, <2>4
  <1> QED BY <1>2, <1>7, <1>8, <1>9, <1>10

\* The instructions of threads_amount.
LEMMA AmountsPrograms ==
  ASSUME test = "threads_amount"
  PROVE  LET P == Program(0) IN
         /\ Len(P) = 9
         /\ P[1].op = "create_interrupt" /\ P[1].mode = "ignore"
         /\ P[2].op = "if" /\ P[2].condition = "ok" /\ P[2].arg = 5
         /\ P[3].op = "increment"
         /\ P[4].op = "goto" /\ P[4].arg = 1
         /\ P[5].op = "if" /\ P[5].condition = "again" /\ P[5].arg = 8
         /\ P[6].op = "print_signal" /\ P[7].op = "return"
BY DEF Program, Programs, threads_amount, Alone, If, Goto, I, On

\* Main prints how many threads there can be beside it.
LEMMA AmountsText == Number(4) = "4" /\ Grows("threads_amount", 1, "4")
  <1>1. Cardinality(Threads) - 1 = 4
    <2>1. Cardinality(0..4) = IF 0 > 4 THEN 0 ELSE 4 - 0 + 1
      <3>1. 0 \in Int /\ 4 \in Int
        OBVIOUS
      <3> QED BY <3>1, FS_Interval, Zenon
    <2> QED BY <2>1 DEF Threads
  <1>2. Number(4) = "4"
    BY DEF Number
  <1> DEFINE lines == <<"4">>
  <1>3. Expected["threads_amount"] = {lines}
    <2>1. Expected["threads_amount"] = {<<Number(Cardinality(Threads) - 1)>>}
      BY DEF Expected
    <2> QED BY <1>1, <1>2, <2>1
  <1>4. lines[1] = "4"
    OBVIOUS
  <1> HIDE DEF lines
  <1>5. \A n \in Nat \ {0} : Grows("threads_amount", n, lines[n])
    BY <1>3, OnlyConsole
  <1> QED BY <1>2, <1>4, <1>5

\* What main has of a thread it creates: none is left when it gets no more.
LEMMA AmountsCreates ==
  ASSUME KInv, test = "threads_amount", NEW c, Runs(0), c = Instruction(0),
         c.op = "create_interrupt"
  PROVE  \E r \in {"OK", "EAGAIN"} : /\ Does(0, c, r)
                                     /\ r = "EAGAIN" => thread'[4] = "interrupt"
  <1>1. Typed /\ 0 \in Threads
    BY DEF KInv, Threads
  <1>2. PICK k \in 0..4 :
          /\ thread[0] = "runs"
          /\ \A u \in Threads \ {0} : thread[u] = IF u <= k THEN "interrupt" ELSE "none"
    BY DEF KInv, Amount
  <1>3. PICK r \in Results : Does(0, c, r) /\ CreateInterruptThread(r)
    BY <1>1, CallMakes DEF CallOps, KernelOps, ServiceOps
  <1>4. r \in {"OK", "EAGAIN"}
    BY <1>3 DEF CreateInterruptThread, sys_ppu_thread_create_interrupt
  <1>5. k < 4 => r = "OK"
    BY <1>1, <1>2, <1>3, InterruptIs
  <1>6. r = "EAGAIN" => k = 4 /\ thread' = thread
    BY <1>1, <1>2, <1>3, <1>5, InterruptIs
  <1>7. k = 4 => thread[4] = "interrupt"
    BY <1>2 DEF Threads
  <1> QED BY <1>3, <1>4, <1>6, <1>7

\* Main prints the number of the threads it has counted, when there is no more to be had.
LEMMA AmountsKept ==
  ASSUME KInv, Amounts, NEW t \in Threads, Runs(t) PROVE Amounts'
  <1> SUFFICES ASSUME test = "threads_amount" PROVE Amounts'
    BY AtInstruction DEF Amounts
  <1>1. /\ thread[t] = "runs" /\ test' = test /\ Typed /\ ~failed
        /\ pos[t] \in 1..Len(Program(t)) /\ Instruction(t) = Program(t)[pos[t]] /\ 0 \in Threads
    <2>1. 0 \in Threads
      BY DEF Threads
    <2> QED BY <2>1, AtInstruction
  <1>2. PICK k \in 0..4 :
          /\ thread[0] = "runs"
          /\ \A u \in Threads \ {0} : thread[u] = IF u <= k THEN "interrupt" ELSE "none"
          /\ signal = IF pos[0] = 3 \/ (pos[0] = 2 /\ ret[0] = "OK") THEN k - 1 ELSE k
    BY DEF KInv, Amount
  <1>3. t = 0
    BY <1>1, <1>2
  <1>4. pos[0] \in 1..7
    BY <1>1, <1>3, AmountsPrograms DEF Amounts
  <1>5. CASE pos[0] = 1
    <2>1. Program(0)[1].op = "create_interrupt" /\ Program(0)[1].mode = "ignore"
      BY AmountsPrograms
    <2>2. PICK r \in {"OK", "EAGAIN"} : /\ Does(0, Program(0)[1], r)
                                        /\ r = "EAGAIN" => thread'[4] = "interrupt"
      BY <1>1, <1>3, <1>5, <2>1, AmountsCreates
    <2>3. Step(0, 2, console) /\ ret'[0] = r
      BY <1>1, <1>5, <2>1, <2>2, Passes DEF Returns
    <2> QED BY <1>1, <1>5, <2>2, <2>3 DEF Amounts, Shown, Step, One
  <1>6. CASE pos[0] = 2
    <2>1. Program(0)[2].op = "if" /\ Program(0)[2].condition = "ok" /\ Program(0)[2].arg = 5
      BY AmountsPrograms
    <2>2. Step(0, IF ret[0] = "OK" THEN 3 ELSE 5, console) /\ ret' = ret /\ thread' = thread
      BY <1>1, <1>3, <1>6, <2>1, Branches, HoldsIs DEF Moves, Step, lv2
    <2> QED BY <1>1, <1>6, <2>2 DEF Amounts, Shown, Step, One
  <1>7. CASE pos[0] = 3
    <2>1. Program(0)[3].op = "increment"
      BY AmountsPrograms
    <2>2. Step(0, 4, console) /\ ret' = ret /\ thread' = thread
      BY <1>1, <1>3, <1>7, <2>1, Writes DEF Moves, Step, lv2
    <2> QED BY <1>1, <1>7, <2>2 DEF Amounts, Shown, Step, One
  <1>8. CASE pos[0] = 4
    <2>1. Program(0)[4].op = "goto" /\ Program(0)[4].arg = 1
      BY AmountsPrograms
    <2>2. Step(0, 1, console) /\ ret' = ret /\ thread' = thread
      BY <1>1, <1>3, <1>8, <2>1, Branches DEF Moves, Step, lv2
    <2> QED BY <1>1, <1>8, <2>2 DEF Amounts, Shown, Step, One
  <1>9. CASE pos[0] = 5
    <2>1. Program(0)[5].op = "if" /\ Program(0)[5].condition = "again" /\ Program(0)[5].arg = 8
      BY AmountsPrograms
    <2>2. Holds(0, "again")
      BY <1>9, HoldsIs DEF Amounts
    <2>3. Step(0, 6, console) /\ ret' = ret /\ thread' = thread
      BY <1>1, <1>3, <1>9, <2>1, <2>2, Branches DEF Moves, Step, lv2
    <2> QED BY <1>1, <1>9, <2>3 DEF Amounts, Shown, Step, One
  <1>10. CASE pos[0] = 6
    <2>1. Program(0)[6].op = "print_signal"
      BY AmountsPrograms
    <2>2. thread[4] = "interrupt" /\ 4 \in Threads \ {0} /\ Shown(0)
      BY <1>10 DEF Amounts, Threads, One
    <2>3. signal = 4
      BY <1>2, <1>10, <2>2
    <2>4. Step(0, 7, Append(console, Number(4))) /\ ret' = ret /\ thread' = thread
      BY <1>1, <1>3, <1>10, <2>1, <2>3, Lines DEF Moves, Step, lv2
    <2>5. Shown(1)'
      BY <2>2, <2>4, AmountsText, Says
    <2> QED BY <1>1, <1>10, <2>4, <2>5 DEF Amounts, Step, One
  <1>11. CASE pos[0] = 7
    <2>1. Program(0)[7].op = "return" /\ Len(Program(0)) = 9
      BY AmountsPrograms
    <2>2. Program(0)[7].op = "return" /\ Len(Program(0)) + 1 = 10
      BY <2>1, 9 + 1 = 10
    <2>3. Step(0, 10, console) /\ ret' = ret /\ thread' = thread
      BY <1>1, <1>3, <1>11, <2>2, Branches DEF Moves, Step, lv2
    <2> QED BY <1>1, <1>11, <2>3 DEF Amounts, Shown, Step, One
  <1> QED BY <1>4, <1>5, <1>6, <1>7, <1>8, <1>9, <1>10, <1>11

-----------------------------------------------------------------------------
(* Identifiers.                                                            *)

\* How many instructions of main's program are before those of a kind.
Offset(k) == LET each == 2 * Objects
             IN  IF k = "mutex" THEN 0 ELSE IF k = "thread" THEN each
                 ELSE IF k = "group" THEN each + each ELSE each + each + each

\* How many instructions of a kind main has behind it at p.
Behind(k, p) == LET n == p - 1 - Offset(k)
                IN  IF n < 0 THEN 0 ELSE IF n > 2 * Objects THEN 2 * Objects ELSE n

\* The slots after the first that the objects of a kind take in turn, and the generation they
\* begin with; the identifier the i-th gets.
Turn(k) == IF k = "thread" THEN Cardinality(Slots) - 1 ELSE 1
FirstGeneration(k) == IF k = "memory" THEN Generations - 1 ELSE 0
SlotOf(k, i) == 2 + ((i - 1) % Turn(k))
GenerationOf(k, i) == (FirstGeneration(k) + (i - 1) \div Turn(k)) % Generations
IdOf(k, i) == [slot |-> SlotOf(k, i), generation |-> GenerationOf(k, i)]

\* When i objects are over, the slots that come next have come to their generations.
ComesNext(k, i, generation) ==
  \A n \in (i + 1)..(i + Turn(k)) : generation[SlotOf(k, n)] = GenerationOf(k, n)

\* The first object lives from the first instruction to the last; beside it, the i-th lives after
\* 2i of them, and is over after one more.
Table == [live : SUBSET Slots, last : Nat, generation : [Slots -> Nat]]
OfKind(k, behind, table, objects) ==
  /\ behind = 0 => table.live = {} /\ table.last = 0 /\ ComesNext(k, 0, table.generation)
  /\ behind \in 1..(2 * Objects - 1) =>
       objects[0].slot = 1 /\ objects[0].generation = table.generation[1]
  /\ \A i \in 0..(Objects - 1) :
       behind = 2 * i + 1 => /\ table.live = {1} /\ ComesNext(k, i, table.generation)
                             /\ table.last = IF i = 0 THEN 1 ELSE SlotOf(k, i)
  /\ \A i \in 1..(Objects - 1) :
       /\ behind = 2 * i => /\ table.live = {1, SlotOf(k, i)} /\ table.last = SlotOf(k, i)
                            /\ ComesNext(k, i - 1, table.generation)
       /\ behind >= 2 * i => objects[i] = IdOf(k, i)

\* Every table is as far as main is.
Ids ==
  test = "ids_invalidations" =>
    /\ Shown(One(pos[0] > 8 * Objects + 1))
    /\ ids \in [Kinds -> Table]
    /\ \A k \in Kinds : OfKind(k, Behind(k, pos[0]), ids[k], array[k])

\* What the constants are.
LEMMA Sizes ==
  /\ Objects \in Nat \ {0} /\ Generations \in Nat \ {0}
  /\ Cardinality(Slots) \in Nat /\ Cardinality(Slots) >= 2 /\ Slots = 1..Cardinality(Slots)
BY KernelTestsAssumption, FS_CardinalityType DEF KernelTestsAssumption

\* A product grows by at least one of the others.
LEMMA TimesMonotone ==
  ASSUME NEW d \in Nat, NEW p \in Nat, NEW q \in Nat, p < q PROVE d * q >= d * p + d
  <1>1. PICK e \in Nat : q = p + 1 + e
    <2>1. q - p - 1 \in Nat /\ q = p + 1 + (q - p - 1)
      OBVIOUS
    <2> QED BY <2>1
  <1>2. d * q = d * p + d + d * e /\ d * e \in Nat /\ d * p \in Nat
    BY <1>1
  <1> QED BY <1>2

\* What is left over, and how often something fits, are the only such numbers.
LEMMA DivModIs ==
  ASSUME NEW n \in Nat, NEW d \in Nat \ {0}, NEW q \in Nat, NEW r \in 0..(d - 1), n = d * q + r
  PROVE  n \div d = q /\ n % d = r
  <1>1. PICK p \in Nat, m \in 0..(d - 1) : p = n \div d /\ m = n % d /\ n = d * p + m
    OBVIOUS
  <1>2. CASE q < p
    <2>1. d * p >= d * q + d
      BY <1>2, TimesMonotone
    <2> QED BY <1>1, <2>1
  <1>3. CASE p < q
    <2>1. d * q >= d * p + d
      BY <1>3, TimesMonotone
    <2> QED BY <1>1, <2>1
  <1> QED BY <1>1, <1>2, <1>3

\* In turns of T, the next one and the one T further.
LEMMA TurnGoesOn ==
  ASSUME NEW T \in Nat \ {0}, NEW m \in Nat
  PROVE  /\ m % T \in 0..(T - 1) /\ m \div T \in Nat
         /\ (m + 1) % T = IF m % T = T - 1 THEN 0 ELSE (m % T) + 1
         /\ (m + T) % T = m % T /\ (m + T) \div T = (m \div T) + 1
         /\ \A n \in Nat : m < n /\ n < m + T => n % T # m % T
  <1> DEFINE Is(n, p, s) == n = T * p + s => n \div T = p /\ n % T = s
  <1>1. PICK q \in Nat, r \in 0..(T - 1) : q = m \div T /\ r = m % T /\ m = T * q + r
    OBVIOUS
  <1>2. T * q \in Nat /\ T * (q + 1) = T * q + T /\ q + 1 \in Nat
    BY <1>1
  <1>3. \A n \in Nat : \A p \in Nat : \A s \in 0..(T - 1) : Is(n, p, s)
    BY DivModIs
  <1>4. (m + 1) % T = IF r = T - 1 THEN 0 ELSE r + 1
    <2>1. CASE r = T - 1
      <3>1. m + 1 = T * (q + 1) + 0 /\ 0 \in 0..(T - 1) /\ m + 1 \in Nat
        BY <1>1, <1>2, <2>1
      <3>2. Is(m + 1, q + 1, 0)
        BY <1>2, <1>3, <3>1
      <3> QED BY <2>1, <3>1, <3>2
    <2>2. CASE r # T - 1
      <3>1. m + 1 = T * q + (r + 1) /\ r + 1 \in 0..(T - 1) /\ m + 1 \in Nat
        BY <1>1, <1>2, <2>2
      <3>2. Is(m + 1, q, r + 1)
        BY <1>3, <3>1
      <3> QED BY <2>2, <3>1, <3>2
    <2> QED BY <2>1, <2>2
  <1>5. (m + T) % T = r /\ (m + T) \div T = q + 1
    <2>1. m + T = T * (q + 1) + r /\ m + T \in Nat
      BY <1>1, <1>2
    <2>2. Is(m + T, q + 1, r)
      BY <1>2, <1>3, <2>1
    <2> QED BY <2>1, <2>2
  <1>6. ASSUME NEW n \in Nat, m < n, n < m + T PROVE n % T # r
    <2> DEFINE s == r + (n - m)
    <2>1. CASE s < T
      <3>1. n = T * q + s /\ s \in 0..(T - 1) /\ s # r
        BY <1>1, <1>2, <1>6, <2>1
      <3> HIDE DEF s
      <3>2. Is(n, q, s)
        BY <1>3, <3>1
      <3> QED BY <3>1, <3>2
    <2>2. CASE ~(s < T)
      <3>1. n = T * (q + 1) + (s - T) /\ s - T \in 0..(T - 1) /\ s - T # r
        BY <1>1, <1>2, <1>6, <2>2
      <3> HIDE DEF s
      <3>2. Is(n, q + 1, s - T)
        BY <1>2, <1>3, <3>1
      <3> QED BY <3>1, <3>2
    <2> QED BY <2>1, <2>2
  <1> QED BY <1>1, <1>4, <1>5, <1>6

\* How many slots the turn of a kind has.
LEMMA Turns ==
  ASSUME NEW k \in Kinds, NEW T, T = Turn(k)
  PROVE  /\ T \in Nat \ {0} /\ T < Cardinality(Slots)
         /\ k = "thread" => T = Cardinality(Slots) - 1
         /\ k # "thread" => T = 1
BY Sizes DEF Turn

\* Every slot but the first is some object's.
LEMMA SlotIn ==
  ASSUME NEW k \in Kinds, NEW n \in Nat \ {0}
  PROVE  SlotOf(k, n) \in Slots \ {1}
  <1> DEFINE T == Turn(k)
             r == (n - 1) % T
  <1>1. T \in Nat \ {0} /\ T < Cardinality(Slots)
    BY Turns
  <1> HIDE DEF T
  <1>2. r \in 0..(T - 1)
    <2>1. n - 1 \in Nat
      OBVIOUS
    <2> QED BY <1>1, <2>1
  <1>3. SlotOf(k, n) = 2 + r
    BY DEF SlotOf, T
  <1> HIDE DEF r
  <1>4. 2 + r \in 2..Cardinality(Slots)
    BY <1>1, <1>2, Sizes
  <1> QED BY <1>3, <1>4, Sizes

\* The generation a slot is in after so many objects.
Generation(k, rounds) == (FirstGeneration(k) + rounds) % Generations

\* The generations go round.
LEMMA GenerationNext ==
  ASSUME NEW k, NEW c \in Nat
  PROVE  (Generation(k, c) + 1) % Generations = Generation(k, c + 1)
  <1> DEFINE G == Generations
             m == FirstGeneration(k) + c
  <1>1. G \in Nat \ {0} /\ m \in Nat /\ FirstGeneration(k) \in Nat
    BY Sizes DEF FirstGeneration
  <1>2. FirstGeneration(k) + (c + 1) = m + 1
    BY <1>1
  <1> HIDE DEF G, m
  <1>3. PICK r \in 0..(G - 1) : r = m % G
    BY <1>1
  <1>4. (m + 1) % G = IF r = G - 1 THEN 0 ELSE r + 1
    BY <1>1, <1>3, TurnGoesOn
  <1>5. (r + 1) % G = IF r = G - 1 THEN 0 ELSE r + 1
    <2>1. CASE r = G - 1
      <3>1. r + 1 = G * 1 + 0 /\ 0 \in 0..(G - 1) /\ r + 1 \in Nat
        BY <1>1, <2>1
      <3> QED BY <1>1, <2>1, <3>1, DivModIs
    <2>2. CASE r # G - 1
      <3>1. r + 1 = G * 0 + (r + 1) /\ r + 1 \in 0..(G - 1) /\ r + 1 \in Nat
        BY <1>1, <2>2
      <3> QED BY <1>1, <2>2, <3>1, DivModIs
    <2> QED BY <2>1, <2>2
  <1>6. (r + 1) % G = (m + 1) % G
    BY <1>4, <1>5
  <1>7. Generation(k, c) = r /\ Generation(k, c + 1) = (m + 1) % G
    BY <1>2, <1>3 DEF Generation, G, m
  <1> QED BY <1>6, <1>7 DEF G

\* Who takes a slot next.
LEMMA TakesNext ==
  ASSUME NEW k \in Kinds, NEW i \in Nat \ {0}, NEW n \in Nat \ {0}, i < n
  PROVE  /\ n < i + Turn(k) => SlotOf(k, n) # SlotOf(k, i)
         /\ n = i + Turn(k) => /\ SlotOf(k, n) = SlotOf(k, i)
                               /\ GenerationOf(k, n) = (GenerationOf(k, i) + 1) % Generations
  <1> DEFINE T == Turn(k)
             m == i - 1
             l == n - 1
  <1>1. T \in Nat \ {0} /\ m \in Nat /\ l \in Nat
    BY Turns
  <1>2. SlotOf(k, n) = 2 + (l % T) /\ SlotOf(k, i) = 2 + (m % T)
    BY DEF SlotOf
  <1>3. /\ GenerationOf(k, n) = Generation(k, l \div T)
        /\ GenerationOf(k, i) = Generation(k, m \div T)
    BY DEF GenerationOf, Generation
  <1> HIDE DEF T
  <1>4. ASSUME n < i + T PROVE SlotOf(k, n) # SlotOf(k, i)
    <2>1. m < l /\ l < m + T
      BY <1>1, <1>4
    <2> HIDE DEF m, l
    <2>2. l % T # m % T /\ l % T \in Nat /\ m % T \in Nat
      <3>1. l % T # m % T
        BY <1>1, <2>1, TurnGoesOn
      <3>2. l % T \in 0..(T - 1) /\ m % T \in 0..(T - 1)
        BY <1>1, TurnGoesOn
      <3> QED BY <1>1, <3>1, <3>2
    <2> QED BY <1>2, <2>2
  <1>5. ASSUME n = i + T
        PROVE  /\ SlotOf(k, n) = SlotOf(k, i)
               /\ GenerationOf(k, n) = (GenerationOf(k, i) + 1) % Generations
    <2>1. l = m + T
      BY <1>1, <1>5
    <2> HIDE DEF m, l
    <2>2. l % T = m % T /\ l \div T = (m \div T) + 1 /\ m \div T \in Nat
      BY <1>1, <2>1, TurnGoesOn
    <2> QED BY <1>2, <1>3, <2>2, GenerationNext
  <1> QED BY <1>4, <1>5 DEF T

\* The lowest of some slots.
LEMMA FewestIs ==
  ASSUME NEW S \in SUBSET Nat, NEW m \in S, \A r \in S : m <= r
  PROVE  Fewest(S) = m
  <1>1. Fewest(S) \in S /\ \A r \in S : Fewest(S) <= r
    BY DEF Fewest
  <1>2. Fewest(S) <= m /\ m <= Fewest(S)
    BY <1>1
  <1> DEFINE F == Fewest(S)
  <1>3. F \in Nat /\ F <= m /\ m <= F /\ m \in Nat
    BY <1>1, <1>2
  <1> HIDE DEF F
  <1>4. F = m
    BY <1>3
  <1> QED BY <1>4 DEF F

\* When an object is over, its slot has come to the generation of the one who takes it next.
LEMMA SlotPasses ==
  ASSUME NEW k \in Kinds, NEW i \in Nat \ {0}, NEW generation \in [Slots -> Nat],
         ComesNext(k, i - 1, generation), NEW new,
         new = [generation EXCEPT ![SlotOf(k, i)] = (@ + 1) % Generations]
  PROVE  /\ ComesNext(k, i, new) /\ generation[SlotOf(k, i)] = GenerationOf(k, i)
         /\ new \in [Slots -> Nat] /\ new[1] = generation[1]
  <1> DEFINE s == SlotOf(k, i)
             T == Turn(k)
  <1>1. s \in Slots \ {1} /\ T \in Nat \ {0} /\ 1 \in Slots
    <2>1. s \in Slots \ {1}
      BY SlotIn
    <2>2. T \in Nat \ {0}
      BY Turns
    <2>3. 1 \in Slots
      BY Sizes
    <2> QED BY <2>1, <2>2, <2>3
  <1>2. generation[s] = GenerationOf(k, i)
    <2>1. i \in ((i - 1) + 1)..((i - 1) + T)
      BY <1>1
    <2> QED BY <2>1 DEF ComesNext
  <1>3. (generation[s] + 1) % Generations \in Nat
    BY <1>1, Sizes
  <1>4. /\ new[s] = (generation[s] + 1) % Generations
        /\ \A o \in Slots \ {s} : new[o] = generation[o]
        /\ new \in [Slots -> Nat]
    BY <1>1, <1>3
  <1>5. ASSUME NEW n \in (i + 1)..(i + T)
        PROVE  new[SlotOf(k, n)] = GenerationOf(k, n)
    <2> HIDE DEF T
    <2>1. n \in Nat \ {0} /\ i < n /\ SlotOf(k, n) \in Slots
      <3>1. n \in Nat \ {0} /\ i < n
        BY <1>1
      <3> QED BY <3>1, SlotIn
    <2>2. CASE n < i + T
      <3>1. SlotOf(k, n) # s
        BY <2>1, <2>2, TakesNext DEF T
      <3>2. n \in ((i - 1) + 1)..((i - 1) + T)
        BY <1>1, <2>1, <2>2
      <3>3. generation[SlotOf(k, n)] = GenerationOf(k, n)
        BY <3>2 DEF ComesNext, T
      <3> QED BY <1>4, <2>1, <3>1, <3>3
    <2>3. CASE n = i + T
      BY <1>2, <1>4, <2>1, <2>3, TakesNext DEF T
    <2> QED BY <1>1, <2>1, <2>2, <2>3
  <1>6. ComesNext(k, i, new)
    BY <1>5 DEF ComesNext
  <1> QED BY <1>1, <1>2, <1>4, <1>6

\* The first object gets the first slot.
LEMMA FirstSlot ==
  ASSUME NEW k \in Kinds, ids[k].live = {}, ids[k].last = 0
  PROVE  Free(k) # {} /\ NextSlot(k) = 1
  <1>1. 1 \in Slots /\ Slots \in SUBSET Nat /\ \A s \in Slots : 1 <= s /\ s > 0
    BY Sizes
  <1>2. Free(k) = Slots
    BY DEF Free
  <1>3. {s \in Free(k) : s > ids[k].last} = Slots
    BY <1>1, <1>2
  <1>4. Fewest(Slots) = 1
    BY <1>1, FewestIs
  <1> QED BY <1>1, <1>2, <1>3, <1>4 DEF NextSlot

\* Beside it, the objects get the others in turn.
LEMMA TurnSlot ==
  ASSUME NEW k \in Kinds, NEW i \in Nat \ {0}, ids[k].live = {1},
         ids[k].last = IF i = 1 THEN 1 ELSE SlotOf(k, i - 1)
  PROVE  Free(k) # {} /\ NextSlot(k) = SlotOf(k, i)
  <1> DEFINE N == Cardinality(Slots)
             last == ids[k].last
             T == Turn(k)
             later == {s \in Free(k) : s > last}
  <1>1. N \in Nat /\ N >= 2 /\ Slots = 1..N
    BY Sizes
  <1>2. Free(k) = 2..N
    BY <1>1 DEF Free
  <1>3. /\ T \in Nat \ {0}
        /\ k = "thread" => T = N - 1
        /\ k # "thread" => T = 1
    BY Turns
  <1>4. Fewest(2..N) = 2
    BY <1>1, FewestIs
  <1>5. CASE k # "thread"
    <2>1. SlotOf(k, i) = 2
      <3>1. i - 1 \in Nat /\ (i - 1) % 1 = 0
        OBVIOUS
      <3> QED BY <1>3, <1>5, <3>1 DEF SlotOf
    <2> QED BY <1>1, <1>2, <1>4, <1>5, <2>1 DEF NextSlot
  <1>6. CASE k = "thread"
    <2>1. T = N - 1 /\ k = "thread"
      BY <1>3, <1>6
    <2>2. last \in 1..N /\ SlotOf(k, i) = IF last = N THEN 2 ELSE last + 1
      <3>1. SlotOf(k, i) = 2 + ((i - 1) % T)
        BY DEF SlotOf
      <3>2. CASE i = 1
        <4>1. 0 % T = 0 /\ i - 1 = 0
          BY <1>3, <3>2
        <4>2. last = 1
          BY <3>2
        <4> HIDE DEF T, N, last
        <4> QED BY <1>1, <3>1, <4>1, <4>2
      <3>3. CASE i > 1
        <4> DEFINE m == i - 2
                   r == m % T
        <4>1. m \in Nat /\ i - 1 = m + 1 /\ (i - 1) - 1 = m
          BY <3>3
        <4>2. last = 2 + r
          BY <3>3, <4>1 DEF SlotOf
        <4> HIDE DEF T, N, last, m
        <4>3. r \in 0..(T - 1) /\ (m + 1) % T = IF r = T - 1 THEN 0 ELSE r + 1
          BY <1>3, <4>1, TurnGoesOn
        <4>4. SlotOf(k, i) = 2 + ((m + 1) % T)
          BY <3>1, <4>1
        <4> HIDE DEF r
        <4> QED BY <1>1, <2>1, <4>2, <4>3, <4>4
      <3> QED BY <3>2, <3>3
    <2>3. CASE last = N
      <3>1. later = {}
        BY <1>1, <1>2, <2>3
      <3> QED BY <1>1, <1>2, <1>4, <2>2, <2>3, <3>1 DEF NextSlot
    <2>4. CASE last # N
      <3>1. last + 1 \in later /\ later \in SUBSET Nat /\ \A s \in later : last + 1 <= s
        BY <1>1, <1>2, <2>2, <2>4
      <3>2. Fewest(later) = last + 1
        BY <3>1, FewestIs
      <3> QED BY <1>1, <1>2, <2>1, <2>2, <2>4, <3>1, <3>2 DEF NextSlot
    <2> QED BY <2>3, <2>4
  <1> QED BY <1>5, <1>6

\* A table that a slot is taken from, and one that it is given back to.
Taken(table, s) == [table EXCEPT !.live = @ \cup {s}, !.last = s]
GivenBack(table, s) == [table EXCEPT !.live = @ \ {s}, !.generation[s] = (@ + 1) % Generations]

\* What the two are, field by field.
LEMMA TakenIs ==
  ASSUME NEW table \in Table, NEW s \in Slots
  PROVE  /\ Taken(table, s) \in Table /\ Taken(table, s).live = table.live \cup {s}
         /\ Taken(table, s).last = s /\ Taken(table, s).generation = table.generation
  <1> DEFINE new == Taken(table, s)
  <1>1. /\ table = [live |-> table.live, last |-> table.last, generation |-> table.generation]
        /\ table.live \in SUBSET Slots /\ table.generation \in [Slots -> Nat]
    BY DEF Table
  <1>2. s \in Nat
    BY Sizes
  <1>3. DOMAIN table = {"live", "last", "generation"}
    BY <1>1
  <1>4. new.live = table.live \cup {s} /\ new.last = s /\ new.generation = table.generation
    BY <1>3 DEF Taken
  <1>5. new = [live |-> table.live \cup {s}, last |-> s, generation |-> table.generation]
    <2>1. PICK n : n = [table EXCEPT !.live = @ \cup {s}, !.last = s]
      OBVIOUS
    <2>2. n = [live |-> table.live \cup {s}, last |-> s, generation |-> table.generation]
      BY <1>3, <2>1
    <2> QED BY <2>1, <2>2 DEF Taken
  <1>6. new \in Table
    BY <1>1, <1>2, <1>5 DEF Table
  <1> QED BY <1>4, <1>6

\* The same of the other.
LEMMA GivenBackIs ==
  ASSUME NEW table \in Table, NEW s \in Slots
  PROVE  /\ GivenBack(table, s) \in Table /\ GivenBack(table, s).live = table.live \ {s}
         /\ GivenBack(table, s).last = table.last
         /\ GivenBack(table, s).generation =
              [table.generation EXCEPT ![s] = (@ + 1) % Generations]
  <1> DEFINE new == GivenBack(table, s)
             g == [table.generation EXCEPT ![s] = (@ + 1) % Generations]
  <1>1. /\ table = [live |-> table.live, last |-> table.last, generation |-> table.generation]
        /\ table.live \in SUBSET Slots /\ table.last \in Nat /\ table.generation \in [Slots -> Nat]
    BY DEF Table
  <1>2. g \in [Slots -> Nat]
    <2>1. (table.generation[s] + 1) % Generations \in Nat
      BY <1>1, Sizes
    <2> QED BY <1>1, <2>1
  <1>3. DOMAIN table = {"live", "last", "generation"}
    BY <1>1
  <1>4. new.live = table.live \ {s} /\ new.last = table.last /\ new.generation = g
    BY <1>3 DEF GivenBack
  <1>5. new = [live |-> table.live \ {s}, last |-> table.last, generation |-> g]
    <2>1. PICK n :
            n = [table EXCEPT !.live = @ \ {s}, !.generation[s] = (@ + 1) % Generations]
      OBVIOUS
    <2>2. n = [live |-> table.live \ {s}, last |-> table.last, generation |-> g]
      BY <1>3, <2>1
    <2> QED BY <2>1, <2>2 DEF GivenBack
  <1> HIDE DEF g
  <1>6. new \in Table
    BY <1>1, <1>2, <1>5 DEF Table
  <1> QED BY <1>4, <1>6 DEF g

\* The first object is made.
LEMMA FirstMade ==
  ASSUME NEW k \in Kinds, NEW table \in Table, NEW objects \in [0..(Objects - 1) -> Id],
         OfKind(k, 0, table, objects), NEW new,
         new.live = table.live \cup {1}, new.last = 1, new.generation = table.generation,
         NEW made, made = [objects EXCEPT ![0] = [slot |-> 1, generation |-> table.generation[1]]]
  PROVE  OfKind(k, 1, new, made)
  <1>1. Objects \in Nat \ {0} /\ 1 \in Slots
    BY Sizes
  <1>2. table.live = {} /\ table.last = 0 /\ ComesNext(k, 0, table.generation)
    BY DEF OfKind
  <1>3. new.live = {1}
    BY <1>2
  <1>4. made[0].slot = 1 /\ made[0].generation = new.generation[1]
    BY <1>1
  <1>5. ASSUME NEW i \in 0..(Objects - 1), 1 = 2 * i + 1 PROVE i = 0
    BY <1>1, <1>5
  <1>6. ASSUME NEW i \in 1..(Objects - 1) PROVE ~(1 >= 2 * i) /\ 1 # 2 * i
    BY <1>1
  <1> QED BY <1>2, <1>3, <1>4, <1>5, <1>6 DEF OfKind

\* The next one is.
LEMMA NextMade ==
  ASSUME NEW k \in Kinds, NEW i \in 1..(Objects - 1),
         NEW table \in Table, NEW objects \in [0..(Objects - 1) -> Id],
         OfKind(k, 2 * i - 1, table, objects), NEW s, s = SlotOf(k, i), NEW new,
         new.live = table.live \cup {s}, new.last = s, new.generation = table.generation,
         NEW made, made = [objects EXCEPT ![i] = [slot |-> s, generation |-> table.generation[s]]]
  PROVE  OfKind(k, 2 * i, new, made)
  <1>1. Objects \in Nat \ {0} /\ i \in Nat \ {0} /\ i \in 0..(Objects - 1)
    BY Sizes
  <1>2. table.live = {1} /\ ComesNext(k, i - 1, table.generation)
    <2>1. i - 1 \in 0..(Objects - 1) /\ 2 * i - 1 = 2 * (i - 1) + 1
      BY <1>1
    <2> QED BY <2>1 DEF OfKind
  <1>3. s \in Slots /\ Turn(k) \in Nat \ {0}
    BY <1>1, SlotIn, Turns
  <1>4. table.generation[s] = GenerationOf(k, i)
    <2>1. i \in ((i - 1) + 1)..((i - 1) + Turn(k))
      BY <1>1, <1>3
    <2> QED BY <1>2, <2>1 DEF ComesNext
  <1>5. new.live = {1, s}
    BY <1>2
  <1>6. /\ made[i] = IdOf(k, i)
        /\ \A j \in 0..(Objects - 1) : j # i => made[j] = objects[j]
    BY <1>1, <1>4 DEF IdOf
  <1>7. objects[0].slot = 1 /\ objects[0].generation = table.generation[1]
    <2>1. 2 * i - 1 \in 1..(2 * Objects - 1)
      BY <1>1
    <2> QED BY <2>1 DEF OfKind
  <1>8. made[0].slot = 1 /\ made[0].generation = new.generation[1]
    BY <1>1, <1>6, <1>7
  <1>9. \A j \in 0..(Objects - 1) : 2 * i # 2 * j + 1
    BY <1>1
  <1>10. ASSUME NEW j \in 1..(Objects - 1), 2 * i >= 2 * j PROVE made[j] = IdOf(k, j)
    <2>1. CASE j = i
      BY <1>6, <2>1
    <2>2. CASE j # i
      <3>1. 2 * i - 1 >= 2 * j /\ j \in 0..(Objects - 1)
        BY <1>1, <1>10, <2>2
      <3>2. objects[j] = IdOf(k, j)
        BY <3>1 DEF OfKind
      <3> QED BY <1>6, <2>2, <3>1, <3>2
    <2> QED BY <2>1, <2>2
  <1>11. ASSUME NEW j \in 1..(Objects - 1), 2 * i = 2 * j PROVE j = i
    BY <1>1, <1>11
  <1>12. 2 * i # 0
    BY <1>1
  <1> QED BY <1>2, <1>5, <1>8, <1>9, <1>10, <1>11, <1>12 DEF OfKind

\* It lives in its slot.
LEMMA OneNamed ==
  ASSUME NEW k \in Kinds, NEW i \in 1..(Objects - 1),
         NEW table \in Table, NEW objects, OfKind(k, 2 * i, table, objects),
         NEW s, s = SlotOf(k, i)
  PROVE  /\ objects[i] = [slot |-> s, generation |-> table.generation[s]]
         /\ s \in table.live /\ s \in Slots
  <1>1. i \in Nat \ {0} /\ Turn(k) \in Nat \ {0}
    BY Sizes, Turns
  <1>2. /\ s \in table.live /\ ComesNext(k, i - 1, table.generation)
        /\ objects[i] = IdOf(k, i)
    <2>1. 2 * i >= 2 * i
      BY <1>1
    <2> QED BY <2>1 DEF OfKind
  <1>3. table.generation[s] = GenerationOf(k, i)
    <2>1. i \in ((i - 1) + 1)..((i - 1) + Turn(k))
      BY <1>1
    <2> QED BY <1>2, <2>1 DEF ComesNext
  <1> QED BY <1>1, <1>2, <1>3, SlotIn DEF IdOf

\* It is ended, and its slot is free.
LEMMA OneEnded ==
  ASSUME NEW k \in Kinds, NEW i \in 1..(Objects - 1),
         NEW table \in Table, NEW objects, OfKind(k, 2 * i, table, objects),
         NEW s, s = SlotOf(k, i), NEW new,
         new.live = table.live \ {s}, new.last = table.last,
         new.generation = [table.generation EXCEPT ![s] = (@ + 1) % Generations]
  PROVE  OfKind(k, 2 * i + 1, new, objects)
  <1>1. Objects \in Nat \ {0} /\ i \in Nat \ {0} /\ i \in 0..(Objects - 1)
    BY Sizes
  <1>2. table.live = {1, s} /\ table.last = s /\ ComesNext(k, i - 1, table.generation)
    BY DEF OfKind
  <1>3. s \in Slots \ {1} /\ table.generation \in [Slots -> Nat]
    BY <1>1, SlotIn DEF Table
  <1>4. /\ ComesNext(k, i, new.generation)
        /\ new.generation[1] = table.generation[1]
    BY <1>1, <1>2, <1>3, SlotPasses
  <1>5. objects[0].slot = 1 /\ objects[0].generation = new.generation[1]
    <2>1. 2 * i \in 1..(2 * Objects - 1)
      BY <1>1
    <2>2. objects[0].slot = 1 /\ objects[0].generation = table.generation[1]
      BY <2>1 DEF OfKind
    <2> QED BY <1>4, <2>2
  <1>6. new.live = {1} /\ new.last = s
    BY <1>2, <1>3
  <1>7. ASSUME NEW j \in 0..(Objects - 1), 2 * i + 1 = 2 * j + 1 PROVE j = i
    BY <1>1, <1>7
  <1>8. ASSUME NEW j \in 1..(Objects - 1), 2 * i + 1 >= 2 * j PROVE objects[j] = IdOf(k, j)
    <2>1. 2 * i >= 2 * j
      BY <1>1, <1>8
    <2> QED BY <2>1 DEF OfKind
  <1>9. 2 * i + 1 # 0 /\ i # 0 /\ \A j \in 1..(Objects - 1) : 2 * i + 1 # 2 * j
    BY <1>1
  <1> QED BY <1>4, <1>5, <1>6, <1>7, <1>8, <1>9 DEF OfKind

\* The first is, last of all.
LEMMA FirstEnded ==
  ASSUME NEW k \in Kinds, NEW table, NEW objects,
         OfKind(k, 2 * Objects - 1, table, objects), NEW new
  PROVE  /\ objects[0].slot = 1 /\ objects[0].generation = table.generation[1]
         /\ 1 \in table.live /\ 1 \in Slots
         /\ OfKind(k, 2 * Objects, new, objects)
  <1>1. Objects \in Nat \ {0} /\ 1 \in Slots
    BY Sizes
  <1>2. objects[0].slot = 1 /\ objects[0].generation = table.generation[1]
    <2>1. 2 * Objects - 1 \in 1..(2 * Objects - 1)
      BY <1>1
    <2> QED BY <2>1 DEF OfKind
  <1>3. 1 \in table.live
    <2>1. Objects - 1 \in 0..(Objects - 1) /\ 2 * Objects - 1 = 2 * (Objects - 1) + 1
      BY <1>1
    <2> QED BY <2>1 DEF OfKind
  <1>4. ASSUME NEW j \in 1..(Objects - 1) PROVE objects[j] = IdOf(k, j) /\ 2 * Objects # 2 * j
    <2>1. 2 * Objects - 1 >= 2 * j /\ 2 * Objects # 2 * j
      BY <1>1
    <2> QED BY <2>1 DEF OfKind
  <1>5. /\ 2 * Objects # 0 /\ 2 * Objects \notin 1..(2 * Objects - 1)
        /\ \A j \in 0..(Objects - 1) : 2 * Objects # 2 * j + 1
    BY <1>1
  <1>6. OfKind(k, 2 * Objects, new, objects)
    BY <1>4, <1>5 DEF OfKind
  <1> QED BY <1>1, <1>2, <1>3, <1>6

\* Programs are sequences of something.
IsSequence(P) == \E S : P \in Seq(S)

\* The instructions of one kind.
LEMMA OneKind ==
  ASSUME NEW k
  PROVE  LET P == OneAfterTheOther(k)
         IN  /\ IsSequence(P)
             /\ Len(P) = 2 * Objects /\ P[1] = Make(k, 0) /\ P[2 * Objects] = End(k, 0)
             /\ \A i \in 1..(Objects - 1) : P[2 * i] = Make(k, i) /\ P[2 * i + 1] = End(k, i)
  <1> DEFINE n == 2 * (Objects - 1)
             Middle == [j \in 1..n |->
                         IF j % 2 = 1 THEN Make(k, (j + 1) \div 2) ELSE End(k, j \div 2)]
             make == Make(k, 0)
             end == End(k, 0)
             S == {make, end} \cup {Middle[j] : j \in 1..n}
             P == (<<make>> \o Middle) \o <<end>>
  <1>1. OneAfterTheOther(k) = P
    BY DEF OneAfterTheOther
  <1>2. Objects \in Nat \ {0} /\ n \in Nat
    BY Sizes
  <1>3. \A i \in 1..(Objects - 1) :
          /\ 2 * i - 1 \in 1..n /\ 2 * i \in 1..n
          /\ Middle[2 * i - 1] = Make(k, i) /\ Middle[2 * i] = End(k, i)
    <2> TAKE i \in 1..(Objects - 1)
    <2>1. /\ 2 * i - 1 \in 1..n /\ 2 * i \in 1..n
          /\ (2 * i - 1) % 2 = 1 /\ ((2 * i - 1) + 1) \div 2 = i
          /\ (2 * i) % 2 = 0 /\ (2 * i) \div 2 = i
      BY <1>2
    <2>2. Middle[2 * i - 1] = Make(k, ((2 * i - 1) + 1) \div 2)
      BY <2>1
    <2>3. Middle[2 * i] = End(k, (2 * i) \div 2)
      BY <2>1
    <2> QED BY <2>1, <2>2, <2>3
  <1>4. <<make>> \in Seq(S) /\ <<end>> \in Seq(S) /\ Middle \in Seq(S) /\ Len(Middle) = n
    <2>1. Middle \in [1..n -> S] /\ make \in S /\ end \in S
      OBVIOUS
    <2> HIDE DEF Middle, S, make, end
    <2> QED BY <1>2, <2>1
  <1> HIDE DEF Middle, make, end, S
  <1>5. /\ <<make>> \o Middle \in Seq(S) /\ Len(<<make>> \o Middle) = n + 1
        /\ (<<make>> \o Middle)[1] = make
        /\ \A j \in 1..n : (<<make>> \o Middle)[j + 1] = Middle[j]
    BY <1>2, <1>4
  <1> DEFINE Q == <<make>> \o Middle
  <1> HIDE DEF n, Q
  <1>6. P = Q \o <<end>>
    BY DEF Q
  <1>7. /\ Q \in Seq(S) /\ Len(Q) = n + 1 /\ Q[1] = make
        /\ \A j \in 1..n : Q[j + 1] = Middle[j]
    BY <1>5 DEF Q
  <1> HIDE DEF P
  <1>8. /\ P \in Seq(S) /\ Len(P) = n + 2 /\ P[1] = make /\ P[n + 2] = end
        /\ \A j \in 1..n : P[j + 1] = Middle[j]
    BY <1>2, <1>4, <1>6, <1>7
  <1>9. \A i \in 1..(Objects - 1) : P[2 * i] = Make(k, i) /\ P[2 * i + 1] = End(k, i)
    <2> TAKE i \in 1..(Objects - 1)
    <2>1. (2 * i - 1) + 1 = 2 * i
      BY <1>2
    <2> QED BY <1>3, <1>8, <2>1
  <1>10. n + 2 = 2 * Objects
    BY <1>2 DEF n
  <1> QED BY <1>1, <1>8, <1>9, <1>10 DEF make, end, IsSequence

\* One part of a program after another.
LEMMA PartOf ==
  ASSUME NEW P, IsSequence(P), NEW Q, IsSequence(Q)
  PROVE  /\ IsSequence(P \o Q) /\ Len(P \o Q) = Len(P) + Len(Q)
         /\ \A j \in 1..Len(P) : (P \o Q)[j] = P[j]
         /\ \A j \in 1..Len(Q) : (P \o Q)[Len(P) + j] = Q[j]
  <1>1. PICK S : P \in Seq(S)
    BY DEF IsSequence
  <1>2. PICK T : Q \in Seq(T)
    BY DEF IsSequence
  <1> DEFINE U == S \cup T
  <1>3. P \in Seq(U) /\ Q \in Seq(U)
    BY <1>1, <1>2, SeqMonotonic
  <1> HIDE DEF U
  <1>4. P \o Q \in Seq(U)
    BY <1>3
  <1> QED BY <1>3, <1>4 DEF IsSequence

\* The instructions of ids_invalidations.
LEMMA IdsPrograms ==
  ASSUME test = "ids_invalidations"
  PROVE  LET P == Program(0) IN
         /\ Len(P) = 8 * Objects + 1 /\ P[8 * Objects + 1] = Finished
         /\ \A k \in Kinds : \A j \in 1..(2 * Objects) : P[Offset(k) + j] = OneAfterTheOther(k)[j]
  <1> DEFINE A == OneAfterTheOther("mutex")
             B == OneAfterTheOther("thread")
             C == OneAfterTheOther("group")
             D == OneAfterTheOther("memory")
             F == <<Finished>>
             n == 2 * Objects
             AB == A \o B
             ABC == AB \o C
             ABCD == ABC \o D
             P == ABCD \o F
  <1>1. Program(0) = P
    BY DEF Program, Programs, ids_invalidations, Alone
  <1>2. n \in Nat /\ Len(A) = n /\ Len(B) = n /\ Len(C) = n /\ Len(D) = n
    BY OneKind, Sizes
  <1>3. IsSequence(A) /\ IsSequence(B) /\ IsSequence(C) /\ IsSequence(D)
    BY OneKind
  <1>4. IsSequence(F) /\ Len(F) = 1 /\ F[1] = Finished
    <2>1. F \in Seq({Finished})
      OBVIOUS
    <2> QED BY <2>1 DEF IsSequence
  <1> HIDE DEF A, B, C, D, F, n
  <1>5. /\ IsSequence(AB) /\ Len(AB) = n + n
        /\ \A j \in 1..n : AB[j] = A[j] /\ AB[n + j] = B[j]
    <2>1. IsSequence(A) /\ IsSequence(B)
      BY <1>3
    <2>2. /\ IsSequence(A \o B) /\ Len(A \o B) = Len(A) + Len(B)
          /\ \A j \in 1..Len(A) : (A \o B)[j] = A[j]
          /\ \A j \in 1..Len(B) : (A \o B)[Len(A) + j] = B[j]
      BY <2>1, PartOf
    <2>3. AB = A \o B
      OBVIOUS
    <2> HIDE DEF AB
    <2> QED BY <1>2, <1>3, <2>2, <2>3
  <1> HIDE DEF AB
  <1>6. /\ IsSequence(ABC) /\ Len(ABC) = n + n + n
        /\ \A j \in 1..(n + n) : ABC[j] = AB[j]
        /\ \A j \in 1..n : ABC[n + n + j] = C[j]
    <2>1. IsSequence(AB) /\ IsSequence(C)
      BY <1>3, <1>5
    <2>2. /\ IsSequence(AB \o C) /\ Len(AB \o C) = Len(AB) + Len(C)
          /\ \A j \in 1..Len(AB) : (AB \o C)[j] = AB[j]
          /\ \A j \in 1..Len(C) : (AB \o C)[Len(AB) + j] = C[j]
      BY <2>1, PartOf
    <2>3. ABC = AB \o C
      OBVIOUS
    <2> HIDE DEF ABC
    <2> QED BY <1>2, <1>3, <1>5, <2>2, <2>3
  <1> HIDE DEF ABC
  <1>7. /\ IsSequence(ABCD) /\ Len(ABCD) = n + n + n + n
        /\ \A j \in 1..(n + n + n) : ABCD[j] = ABC[j]
        /\ \A j \in 1..n : ABCD[n + n + n + j] = D[j]
    <2>1. IsSequence(ABC) /\ IsSequence(D)
      BY <1>3, <1>6
    <2>2. /\ IsSequence(ABC \o D) /\ Len(ABC \o D) = Len(ABC) + Len(D)
          /\ \A j \in 1..Len(ABC) : (ABC \o D)[j] = ABC[j]
          /\ \A j \in 1..Len(D) : (ABC \o D)[Len(ABC) + j] = D[j]
      BY <2>1, PartOf
    <2>3. ABCD = ABC \o D
      OBVIOUS
    <2> HIDE DEF ABCD
    <2> QED BY <1>2, <1>3, <1>6, <2>2, <2>3
  <1> HIDE DEF ABCD
  <1>8. /\ Len(P) = n + n + n + n + 1
        /\ \A j \in 1..(n + n + n + n) : P[j] = ABCD[j]
        /\ P[n + n + n + n + 1] = Finished
    <2>1. IsSequence(ABCD) /\ IsSequence(F)
      BY <1>4, <1>7
    <2>2. /\ IsSequence(ABCD \o F) /\ Len(ABCD \o F) = Len(ABCD) + Len(F)
          /\ \A j \in 1..Len(ABCD) : (ABCD \o F)[j] = ABCD[j]
          /\ \A j \in 1..Len(F) : (ABCD \o F)[Len(ABCD) + j] = F[j]
      BY <2>1, PartOf
    <2>3. P = ABCD \o F
      OBVIOUS
    <2> HIDE DEF P
    <2> QED BY <1>2, <1>4, <1>7, <2>2, <2>3
  <1> HIDE DEF P
  <1>9. \A j \in 1..n : /\ P[j] = A[j] /\ P[n + j] = B[j] /\ P[n + n + j] = C[j]
                        /\ P[n + n + n + j] = D[j]
    <2> TAKE j \in 1..n
    <2>1. /\ j \in 1..(n + n) /\ j \in 1..(n + n + n) /\ j \in 1..(n + n + n + n)
          /\ n + j \in 1..(n + n) /\ n + j \in 1..(n + n + n) /\ n + j \in 1..(n + n + n + n)
          /\ n + n + j \in 1..(n + n + n) /\ n + n + j \in 1..(n + n + n + n)
          /\ n + n + n + j \in 1..(n + n + n + n)
      BY <1>2
    <2> QED BY <1>5, <1>6, <1>7, <1>8, <2>1
  <1>10. ASSUME NEW k \in Kinds, NEW j \in 1..n PROVE P[Offset(k) + j] = OneAfterTheOther(k)[j]
    <2>1. CASE k = "mutex"
      <3>1. Offset(k) = 0 /\ 0 + j = j
        BY <1>2, <2>1 DEF Offset
      <3> QED BY <1>9, <2>1, <3>1 DEF A
    <2>2. CASE k = "thread"
      <3>1. Offset(k) = n
        BY <2>2 DEF Offset, n
      <3> QED BY <1>9, <2>2, <3>1 DEF B
    <2>3. CASE k = "group"
      <3>1. Offset(k) = n + n
        BY <2>3 DEF Offset, n
      <3> QED BY <1>9, <2>3, <3>1 DEF C
    <2>4. CASE k = "memory"
      <3>1. Offset(k) = n + n + n
        BY <2>4 DEF Offset, n
      <3> QED BY <1>9, <2>4, <3>1 DEF D
    <2> QED BY <2>1, <2>2, <2>3, <2>4 DEF Kinds
  <1>11. n + n + n + n + 1 = 8 * Objects + 1
    BY Sizes DEF n
  <1> QED BY <1>1, <1>8, <1>10, <1>11 DEF n

\* The line of ids_invalidations.
LEMMA IdsText == Grows("ids_invalidations", 1, "sample_finished")
  <1> DEFINE lines == <<"sample_finished">>
  <1>1. Expected["ids_invalidations"] = {lines}
    BY DEF Expected
  <1>2. lines[1] = "sample_finished"
    OBVIOUS
  <1> HIDE DEF lines
  <1>3. \A n \in Nat \ {0} : Grows("ids_invalidations", n, lines[n])
    BY <1>1, OnlyConsole
  <1> QED BY <1>2, <1>3

\* Where main is among the objects.
LEMMA BehindIs ==
  ASSUME NEW k \in Kinds, NEW j \in 1..(2 * Objects), NEW p, p = Offset(k) + j
  PROVE  /\ p \in 1..(8 * Objects) /\ Behind(k, p) = j - 1 /\ Behind(k, p + 1) = j
         /\ \A o \in Kinds \ {k} : Behind(o, p + 1) = Behind(o, p)
  <1> DEFINE n == 2 * Objects
  <1>1. n \in Nat /\ 8 * Objects = n + n + n + n
    BY Sizes
  <1>2. \A o \in Kinds :
          /\ Offset(o) \in Nat
          /\ Offset(o) = IF o = "mutex" THEN 0 ELSE IF o = "thread" THEN n
                         ELSE IF o = "group" THEN n + n ELSE n + n + n
    BY <1>1 DEF Offset, Kinds
  <1>3. \A o \in Kinds, q \in Nat :
          Behind(o, q) = IF q - 1 - Offset(o) < 0 THEN 0
                         ELSE IF q - 1 - Offset(o) > n THEN n ELSE q - 1 - Offset(o)
    BY DEF Behind
  <1> HIDE DEF n
  <1>4. p \in 1..(8 * Objects) /\ p \in Nat /\ p + 1 \in Nat
    BY <1>1, <1>2 DEF Kinds, n
  <1>5. Behind(k, p) = j - 1 /\ Behind(k, p + 1) = j
    BY <1>1, <1>2, <1>3, <1>4 DEF n
  <1>6. ASSUME NEW o \in Kinds \ {k} PROVE Behind(o, p + 1) = Behind(o, p)
    <2>1. p - Offset(o) <= 0 \/ p - 1 - Offset(o) >= n
      BY <1>1, <1>2, <1>4, <1>6 DEF Kinds, n
    <2>2. PICK q \in Nat : q = p + 1
      BY <1>4
    <2>3. \A r \in {p, q} : Behind(o, r) = IF r - 1 - Offset(o) < 0 THEN 0
                                            ELSE IF r - 1 - Offset(o) > n THEN n
                                            ELSE r - 1 - Offset(o)
      BY <1>3, <1>4, <2>2
    <2>4. Offset(o) \in Nat
      BY <1>2
    <2>5. Behind(o, q) = Behind(o, p)
      BY <1>1, <1>4, <2>1, <2>2, <2>4, <2>3
    <2> QED BY <2>2, <2>5
  <1> QED BY <1>4, <1>5, <1>6

\* Every instruction but the last is about an object.
LEMMA AboutObject ==
  ASSUME NEW p \in 1..(8 * Objects)
  PROVE  \E k \in Kinds : \E j \in 1..(2 * Objects) : p = Offset(k) + j
  <1> DEFINE n == 2 * Objects
  <1>1. n \in Nat /\ 8 * Objects = n + n + n + n /\ p \in 1..(n + n + n + n)
    BY Sizes
  <1>2. /\ Offset("mutex") = 0 /\ Offset("thread") = n /\ Offset("group") = n + n
        /\ Offset("memory") = n + n + n
    BY DEF Offset
  <1> HIDE DEF n
  <1>3. \/ p - 0 \in 1..n \/ p - n \in 1..n \/ p - (n + n) \in 1..n \/ p - (n + n + n) \in 1..n
    BY <1>1
  <1>4. \A m \in Nat : p = m + (p - m)
    BY <1>1
  <1>5. 0 \in Nat /\ n + n \in Nat /\ n + n + n \in Nat
    BY <1>1
  <1>6. /\ p = Offset("mutex") + (p - 0) /\ p = Offset("thread") + (p - n)
        /\ p = Offset("group") + (p - (n + n)) /\ p = Offset("memory") + (p - (n + n + n))
    BY <1>1, <1>2, <1>4, <1>5
  <1> QED BY <1>3, <1>6 DEF Kinds, n

\* One instruction about an object concerns no other kind.
LEMMA OnlyKind ==
  ASSUME Ids, test = "ids_invalidations", NEW k \in Kinds, NEW j \in 1..(2 * Objects),
         pos[0] = Offset(k) + j, Step(0, pos[0] + 1, console), NEW new, NEW made,
         ids' \in [Kinds -> Table], ids'[k] = new, array'[k] = made,
         \A o \in Kinds \ {k} : ids'[o] = ids[o] /\ array'[o] = array[o],
         OfKind(k, j, new, made)
  PROVE  Ids'
  <1>1. /\ pos[0] \in 1..(8 * Objects) /\ Behind(k, pos[0] + 1) = j
        /\ \A o \in Kinds \ {k} : Behind(o, pos[0] + 1) = Behind(o, pos[0])
    BY BehindIs
  <1>2. pos'[0] = pos[0] + 1 /\ ~failed' /\ test' = test /\ console' = console
    BY DEF Step
  <1>3. ~(pos[0] > 8 * Objects + 1) /\ ~(pos'[0] > 8 * Objects + 1)
    BY <1>1, <1>2, Sizes
  <1>4. Shown(One(pos[0] > 8 * Objects + 1))'
    BY <1>2, <1>3 DEF Ids, Shown, One
  <1>5. \A o \in Kinds : OfKind(o, Behind(o, pos'[0]), ids'[o], array'[o])
    BY <1>1, <1>2 DEF Ids
  <1> QED BY <1>4, <1>5 DEF Ids

\* What an instruction about an object is.
LEMMA MakeIs ==
  ASSUME NEW k, NEW i
  PROVE  /\ Make(k, i).op = "make" /\ Make(k, i).arg.kind = k /\ Make(k, i).arg.i = i
         /\ End(k, i).op = "end" /\ End(k, i).arg.kind = k /\ End(k, i).arg.i = i
         /\ End(k, i).mode = "OK"
BY DEF Make, End, Object, On, ENSURE_OK, ENSURE_VAL

\* An object is made: it gets the slot that is next.
LEMMA MakesObject ==
  ASSUME Typed, ~failed, ids \in [Kinds -> Table], 0 \in Threads, Runs(0), NEW k \in Kinds,
         NEW i \in 0..(Objects - 1), Instruction(0) = Make(k, i), NEW s \in Slots, s = NextSlot(k)
  PROVE  /\ Step(0, pos[0] + 1, console) /\ ids' \in [Kinds -> Table]
         /\ ids'[k].live = ids[k].live \cup {s} /\ ids'[k].last = s
         /\ ids'[k].generation = ids[k].generation
         /\ array'[k] =
              [array[k] EXCEPT ![i] = [slot |-> s, generation |-> ids[k].generation[s]]]
         /\ \A o \in Kinds \ {k} : ids'[o] = ids[o] /\ array'[o] = array[o]
  <1> DEFINE id == [slot |-> s, generation |-> ids[k].generation[s]]
             new == Taken(ids[k], s)
  <1>1. MakeObject(0) /\ Arg(0).kind = k /\ Arg(0).i = i
    BY MakeIs, OtherIs DEF Arg
  <1>2. /\ Give(k, id) /\ array' = [array EXCEPT ![k][i] = id]
        /\ pos' = [pos EXCEPT ![0] = pos[0] + 1] /\ UNCHANGED <<test, failed, console>>
    BY <1>1 DEF MakeObject, Give, Next_, Goes
  <1>3. ids' = [ids EXCEPT ![k] = new]
    BY <1>2 DEF Give, Keep, Taken
  <1>4. new \in Table /\ new.live = ids[k].live \cup {s} /\ new.last = s
        /\ new.generation = ids[k].generation
    <2>1. ids[k] \in Table
      OBVIOUS
    <2> QED BY <2>1, TakenIs
  <1>5. array'[k] = [array[k] EXCEPT ![i] = id] /\ \A o \in Kinds \ {k} : array'[o] = array[o]
    BY <1>2 DEF Typed
  <1> HIDE DEF new, id
  <1>6. /\ ids'[k] = new /\ \A o \in Kinds \ {k} : ids'[o] = ids[o]
        /\ ids' \in [Kinds -> Table]
    BY <1>3, <1>4
  <1>7. Step(0, pos[0] + 1, console)
    BY <1>2 DEF Step, Typed, Begun
  <1> QED BY <1>4, <1>5, <1>6, <1>7 DEF id

\* One is ended by the identifier it has.
LEMMA EndsObject ==
  ASSUME Typed, ~failed, ids \in [Kinds -> Table], 0 \in Threads, Runs(0), NEW k \in Kinds,
         NEW i \in 0..(Objects - 1), Instruction(0) = End(k, i), NEW s \in Slots,
         s \in ids[k].live,
         array[k][i].slot = s, array[k][i].generation = ids[k].generation[s]
  PROVE  /\ Step(0, pos[0] + 1, console) /\ ids' \in [Kinds -> Table]
         /\ ids'[k].live = ids[k].live \ {s} /\ ids'[k].last = ids[k].last
         /\ ids'[k].generation = [ids[k].generation EXCEPT ![s] = (@ + 1) % Generations]
         /\ array' = array
         /\ \A o \in Kinds \ {k} : ids'[o] = ids[o]
  <1> DEFINE c == Instruction(0)
             new == GivenBack(ids[k], s)
  <1>1. c.op = "end" /\ c.mode = "OK" /\ c.arg.kind = k /\ c.arg.i = i
    BY MakeIs
  <1>2. PICK r \in Results : Does(0, c, r) /\ EndObject(k, array[k][i], r)
    BY <1>1, CallMakes DEF CallOps, KernelOps, ServiceOps
  <1>3. Names(k, array[k][i])
    BY DEF Names
  <1>4. r = "OK" /\ ids' = [ids EXCEPT ![k] = new]
    BY <1>2, <1>3 DEF EndObject, Keep, GivenBack
  <1>5. /\ new \in Table /\ new.live = ids[k].live \ {s} /\ new.last = ids[k].last
        /\ new.generation = [ids[k].generation EXCEPT ![s] = (@ + 1) % Generations]
    <2>1. ids[k] \in Table
      OBVIOUS
    <2> QED BY <2>1, GivenBackIs
  <1> HIDE DEF new
  <1>6. /\ ids'[k] = new /\ \A o \in Kinds \ {k} : ids'[o] = ids[o]
        /\ ids' \in [Kinds -> Table]
    BY <1>4, <1>5
  <1>7. Step(0, pos[0] + 1, console)
    <2>1. Does(0, c, "OK")
      BY <1>2, <1>4
    <2> QED BY <1>1, <2>1, Passes
  <1>8. array' = array
    BY <1>2 DEF Does
  <1> QED BY <1>5, <1>6, <1>7, <1>8

\* An instruction about an object does what is expected of it.
LEMMA ObjectKept ==
  ASSUME KInv, Ids, test = "ids_invalidations", Runs(0), ~failed, NEW k \in Kinds,
         NEW j \in 1..(2 * Objects), pos[0] = Offset(k) + j, Instruction(0) = OneAfterTheOther(k)[j]
  PROVE  Ids'
  <1>1. Typed /\ ids \in [Kinds -> Table] /\ 0 \in Threads /\ ids[k] \in Table
    BY DEF KInv, Ids, Threads
  <1>2. array[k] \in [0..(Objects - 1) -> Id]
    BY <1>1 DEF Typed
  <1>3. OfKind(k, j - 1, ids[k], array[k])
    BY BehindIs DEF Ids
  <1>4. Objects \in Nat \ {0} /\ 0 \in 0..(Objects - 1) /\ 1 \in Slots
    BY Sizes
  <1> DEFINE P == OneAfterTheOther(k)
  <1>5. /\ P[1] = Make(k, 0) /\ P[2 * Objects] = End(k, 0)
        /\ \A i \in 1..(Objects - 1) : P[2 * i] = Make(k, i) /\ P[2 * i + 1] = End(k, i)
    BY OneKind
  <1> HIDE DEF P
  <1>6. Instruction(0) = P[j]
    BY DEF P
  <1>7. \/ j = 1 \/ j = 2 * Objects
        \/ \E i \in 1..(Objects - 1) : j = 2 * i \/ j = 2 * i + 1
    <2> DEFINE i == j \div 2
    <2>1. i \in Nat /\ j = 2 * i + (j % 2) /\ j % 2 \in {0, 1}
      OBVIOUS
    <2> HIDE DEF i
    <2>2. CASE j % 2 = 0 /\ j # 2 * Objects
      <3>1. i \in 1..(Objects - 1) /\ j = 2 * i
        BY <1>4, <2>1, <2>2
      <3> QED BY <3>1
    <2>3. CASE j % 2 = 1 /\ j # 1
      <3>1. i \in 1..(Objects - 1) /\ j = 2 * i + 1
        BY <1>4, <2>1, <2>3
      <3> QED BY <3>1
    <2> QED BY <2>1, <2>2, <2>3
  <1>8. CASE j = 1
    <2>1. OfKind(k, 0, ids[k], array[k])
      BY <1>3, <1>8
    <2>2. NextSlot(k) = 1
      BY <2>1, FirstSlot DEF OfKind
    <2>3. /\ Step(0, pos[0] + 1, console) /\ ids' \in [Kinds -> Table]
          /\ ids'[k].live = ids[k].live \cup {1} /\ ids'[k].last = 1
          /\ ids'[k].generation = ids[k].generation
          /\ array'[k] = [array[k] EXCEPT ![0] = [slot |-> 1, generation |-> ids[k].generation[1]]]
          /\ \A o \in Kinds \ {k} : ids'[o] = ids[o] /\ array'[o] = array[o]
      BY <1>1, <1>4, <1>5, <1>6, <1>8, <2>2, MakesObject
    <2>4. OfKind(k, 1, ids'[k], array'[k])
      BY <1>1, <1>2, <2>1, <2>3, FirstMade
    <2> QED BY <1>8, <2>3, <2>4, OnlyKind
  <1>9. ASSUME NEW i \in 1..(Objects - 1), j = 2 * i PROVE Ids'
    <2> DEFINE s == SlotOf(k, i)
    <2>1. OfKind(k, 2 * i - 1, ids[k], array[k]) /\ i \in Nat \ {0} /\ i \in 0..(Objects - 1)
      BY <1>3, <1>4, <1>9
    <2>2. ids[k].live = {1} /\ ids[k].last = IF i = 1 THEN 1 ELSE SlotOf(k, i - 1)
      <3>1. i - 1 \in 0..(Objects - 1) /\ 2 * i - 1 = 2 * (i - 1) + 1 /\ (i - 1 = 0 <=> i = 1)
        BY <1>4
      <3> QED BY <2>1, <3>1 DEF OfKind
    <2>3. NextSlot(k) = s /\ s \in Slots
      BY <2>1, <2>2, TurnSlot, SlotIn
    <2> HIDE DEF s
    <2>4. /\ Step(0, pos[0] + 1, console) /\ ids' \in [Kinds -> Table]
          /\ ids'[k].live = ids[k].live \cup {s} /\ ids'[k].last = s
          /\ ids'[k].generation = ids[k].generation
          /\ array'[k] = [array[k] EXCEPT ![i] = [slot |-> s, generation |-> ids[k].generation[s]]]
          /\ \A o \in Kinds \ {k} : ids'[o] = ids[o] /\ array'[o] = array[o]
      BY <1>1, <1>5, <1>6, <1>9, <2>1, <2>3, MakesObject
    <2>5. OfKind(k, 2 * i, ids'[k], array'[k])
      BY <1>1, <1>2, <2>1, <2>4, NextMade DEF s
    <2> QED BY <1>9, <2>4, <2>5, OnlyKind
  <1>10. ASSUME NEW i \in 1..(Objects - 1), j = 2 * i + 1 PROVE Ids'
    <2> DEFINE s == SlotOf(k, i)
    <2>1. OfKind(k, 2 * i, ids[k], array[k]) /\ i \in 0..(Objects - 1)
      BY <1>3, <1>4, <1>10
    <2>2. /\ array[k][i] = [slot |-> s, generation |-> ids[k].generation[s]]
          /\ s \in ids[k].live /\ s \in Slots
      BY <1>1, <2>1, OneNamed
    <2> HIDE DEF s
    <2>3. array[k][i].slot = s /\ array[k][i].generation = ids[k].generation[s]
      BY <2>2
    <2>4. /\ Step(0, pos[0] + 1, console) /\ ids' \in [Kinds -> Table]
          /\ ids'[k].live = ids[k].live \ {s} /\ ids'[k].last = ids[k].last
          /\ ids'[k].generation = [ids[k].generation EXCEPT ![s] = (@ + 1) % Generations]
          /\ array' = array
          /\ \A o \in Kinds \ {k} : ids'[o] = ids[o]
      BY <1>1, <1>5, <1>6, <1>10, <2>1, <2>2, <2>3, EndsObject
    <2>5. OfKind(k, 2 * i + 1, ids'[k], array[k])
      BY <1>1, <2>1, <2>4, OneEnded DEF s
    <2> QED BY <1>10, <2>4, <2>5, OnlyKind
  <1>11. CASE j = 2 * Objects
    <2>1. OfKind(k, 2 * Objects - 1, ids[k], array[k])
      BY <1>3, <1>11
    <2>2. /\ array[k][0].slot = 1 /\ array[k][0].generation = ids[k].generation[1]
          /\ 1 \in ids[k].live
      BY <2>1, FirstEnded
    <2>3. Instruction(0) = End(k, 0)
      BY <1>5, <1>6, <1>11
    <2>4. /\ Step(0, pos[0] + 1, console) /\ ids' \in [Kinds -> Table] /\ array' = array
          /\ \A o \in Kinds \ {k} : ids'[o] = ids[o]
      BY <1>1, <1>4, <2>2, <2>3, EndsObject
    <2>5. OfKind(k, 2 * Objects, ids'[k], array'[k])
      BY <2>1, <2>4, FirstEnded
    <2> QED BY <1>11, <2>4, <2>5, OnlyKind
  <1> QED BY <1>7, <1>8, <1>9, <1>10, <1>11

\* The objects of ids_invalidations get the identifiers that their slots have come to, and are
\* ended by them.
LEMMA IdsKept ==
  ASSUME KInv, Ids, NEW t \in Threads, Runs(t) PROVE Ids'
  <1> SUFFICES ASSUME test = "ids_invalidations" PROVE Ids'
    BY AtInstruction DEF Ids
  <1>1. /\ test' = test /\ Typed /\ ~failed
        /\ pos[t] \in 1..Len(Program(t)) /\ Instruction(t) = Program(t)[pos[t]] /\ 0 \in Threads
    <2>1. 0 \in Threads
      BY DEF Threads
    <2> QED BY <2>1, AtInstruction
  <1>2. CASE t # 0
    <2>1. Program(t) = <<Exit>>
      BY <1>2 DEF Program, Programs, ids_invalidations, Alone
    <2>2. Instruction(t) = Exit /\ Exit.op = "exit"
      BY <1>1, <2>1 DEF Exit, I, On
    <2>3. UNCHANGED <<ids, array, test, pos, failed, console>>
      BY <1>1, <2>2, Exits DEF services
    <2> QED BY <2>3 DEF Ids, Shown
  <1>3. CASE t = 0
    <2>1. Objects \in Nat \ {0} /\ Len(Program(0)) = 8 * Objects + 1
      BY Sizes, IdsPrograms
    <2>2. CASE pos[0] = 8 * Objects + 1
      <3>1. Instruction(0).op = "print" /\ Instruction(0).arg = "sample_finished"
        <4>1. Instruction(0) = Finished
          BY <1>1, <1>3, <2>2, IdsPrograms
        <4> QED BY <4>1 DEF Finished, On
      <3>2. Step(0, pos[0] + 1, Append(console, "sample_finished")) /\ UNCHANGED <<ids, array>>
        BY <1>1, <1>3, <3>1, Lines DEF Moves, Step, services
      <3>3. One(pos[0] > 8 * Objects + 1) = 0 /\ pos'[0] = 8 * Objects + 2
        BY <2>1, <2>2, <3>2 DEF One, Step
      <3>4. Shown(0)
        BY <3>3 DEF Ids
      <3>5. Shown(1)'
        BY <3>2, <3>4, IdsText, Says
      <3>6. Shown(One(pos[0] > 8 * Objects + 1))'
        BY <2>1, <3>3, <3>5 DEF Shown, One
      <3>7. \A k \in Kinds : Behind(k, pos'[0]) = Behind(k, pos[0])
        <4>1. \A k \in Kinds : Offset(k) \in 0..(6 * Objects)
          BY <2>1 DEF Offset, Kinds
        <4>2. \A k \in Kinds : /\ Behind(k, 8 * Objects + 1) = 2 * Objects
                               /\ Behind(k, 8 * Objects + 2) = 2 * Objects
          BY <2>1, <4>1 DEF Behind
        <4> QED BY <2>2, <3>3, <4>2
      <3> QED BY <3>2, <3>6, <3>7 DEF Ids
    <2>3. CASE pos[0] # 8 * Objects + 1
      <3>1. pos[0] \in 1..(8 * Objects)
        BY <1>1, <1>3, <2>1, <2>3
      <3>2. PICK k \in Kinds : \E j \in 1..(2 * Objects) : pos[0] = Offset(k) + j
        BY <3>1, AboutObject
      <3>3. PICK j \in 1..(2 * Objects) : pos[0] = Offset(k) + j
        BY <3>2
      <3>4. Instruction(0) = OneAfterTheOther(k)[j]
        BY <1>1, <1>3, <3>3, IdsPrograms
      <3> QED BY <1>1, <1>3, <3>3, <3>4, ObjectKept
    <2> QED BY <2>2, <2>3
  <1> QED BY <1>2, <1>3

\* There is no timer that could tell the queue of the audio something else.
Still == test = "audio_set_notify_queue" => timer.state # "run"

\* Nor is one started.
LEMMA StillKept ==
  ASSUME KInv, NotifyQueue, Still, NEW t \in Threads, Runs(t) PROVE Still'
  <1> SUFFICES ASSUME test = "audio_set_notify_queue" PROVE Still'
    BY AtInstruction DEF Still
  <1>1. /\ t = 0 /\ test' = test /\ Typed /\ pos[0] \in 1..Len(Program(0)) /\ 0 \in Threads
        /\ Instruction(0) = Program(0)[pos[0]]
    BY MainRuns DEF NotifyQueue
  <1>2. pos[0] \in 1..20
    BY <1>1, NotifyPrograms
  <1> DEFINE c == Instruction(0)
  <1>3. c.op \in {"queue_create", "queue_receive", "queue_destroy", "set_notify", "remove_notify",
                  "print"}
    <2>1. \/ pos[0] \in {1, 6, 11, 16} \/ pos[0] \in {2, 12} \/ pos[0] \in {3, 13}
          \/ pos[0] \in {4, 8, 14} \/ pos[0] \in {5, 10, 15, 19} \/ pos[0] \in {9, 18}
          \/ pos[0] = 7 \/ pos[0] = 17 \/ pos[0] = 20
      BY <1>2
    <2>2. /\ \A n \in {1, 6, 11, 16} : Program(0)[n].op = "queue_create"
          /\ \A n \in {2, 12} : Program(0)[n].op = "set_notify"
          /\ \A n \in {3, 13} : Program(0)[n].op = "queue_receive"
          /\ \A n \in {4, 8, 14} : Program(0)[n].op = "print"
          /\ \A n \in {5, 10, 15, 19} : Program(0)[n].op = "queue_destroy"
          /\ \A n \in {9, 18} : Program(0)[n].op = "remove_notify"
      BY NotifyPrograms
    <2>3. /\ Program(0)[7].op = "queue_receive" /\ Program(0)[17].op = "set_notify"
          /\ Program(0)[20].op = "print"
      BY NotifyPrograms
    <2>4. c.op = Program(0)[pos[0]].op
      BY <1>1
    <2> HIDE DEF c
    <2> QED BY <2>1, <2>2, <2>3, <2>4
  <1>4. timer' = timer
    <2>1. CASE c.op = "queue_create"
      BY <1>1, <2>1, QueueCreates
    <2>2. CASE c.op = "queue_receive"
      BY <1>1, <2>2, Awaits
    <2>3. CASE c.op = "queue_destroy"
      BY <1>1, <2>3, QueueDestroys
    <2>4. CASE c.op \in {"set_notify", "remove_notify"}
      BY <1>1, <2>4, NotifyCalls DEF lv2
    <2>5. CASE c.op = "print"
      BY <1>1, <2>5, Lines DEF lv2
    <2> QED BY <1>3, <2>1, <2>2, <2>3, <2>4, <2>5
  <1> QED BY <1>1, <1>4 DEF Still

-----------------------------------------------------------------------------
(* What is beside the threads, and the start.                              *)

\* Neither the timer, nor a blank, nor the audio that is mixed disturbs what a test that has none
\* of them shows.
LEMMA OthersBeside ==
  ASSUME Device \/ Mix
  PROVE  /\ Call117s => Call117s'
         /\ Waits => Waits'
         /\ Joinability => Joinability'
         /\ Priorities => Priorities'
         /\ BindQueue => BindQueue'
         /\ Camera => Camera'
         /\ Amounts => Amounts'
         /\ Initialization => Initialization'
         /\ BaseAddress => BaseAddress'
         /\ BaseAddress2 => BaseAddress2'
         /\ Reference => Reference'
         /\ Ids => Ids'
  <1>1. /\ UNCHANGED <<thread, queue, marks, bound, mapped>>
        /\ UNCHANGED <<test, pos, ret, saved, signal, array, failed, console>>
        /\ UNCHANGED <<notified, updating, driver, ids>>
    BY Besides DEF services
  <1>2. (Call117s => Call117s') /\ (Waits => Waits') /\ (Joinability => Joinability')
    BY <1>1 DEF Call117s, Waits, Joinability, Shown, Single
  <1>3. (Priorities => Priorities') /\ (BindQueue => BindQueue') /\ (Camera => Camera')
    BY <1>1 DEF Priorities, BindQueue, Camera, Shown, Single, Lone
  <1>4. (Amounts => Amounts') /\ (Initialization => Initialization')
    BY <1>1 DEF Amounts, Initialization, Shown, Single, Lone
  <1>5. /\ BaseAddress => BaseAddress'
        /\ BaseAddress2 => BaseAddress2'
        /\ Reference => Reference'
    BY <1>1 DEF BaseAddress, BaseAddress2, Reference, Before, MappedAt, Shown, Single, Lone
  <1>6. Ids => Ids'
    BY <1>1 DEF Ids, Shown
  <1> QED BY <1>2, <1>3, <1>4, <1>5, <1>6

\* A timer that expires is one that runs, and it stops if it runs once.
LEMMA TimersBeside ==
  ASSUME Typed, Device \/ Mix
  PROVE  /\ Overflow => Overflow'
         /\ Destroyed => Destroyed'
         /\ Info => Info'
         /\ Still => Still'
  <1>1. /\ UNCHANGED <<thread, queue>> /\ UNCHANGED <<test, pos, signal, failed, console>>
        /\ timer' = timer \/ Expire
    BY Besides
  <1>2. CASE timer' = timer
    BY <1>1, <1>2 DEF Overflow, Destroyed, Info, Still, Shown, Single
  <1>3. CASE Expire
    <2>1. /\ timer.state = "run" /\ timer'.period = timer.period
          /\ timer'.connected = timer.connected
          /\ timer'.state = IF timer.period = "once" THEN "stop" ELSE "run"
      BY <1>3, Expires
    <2>2. Overflow => Overflow'
      BY <1>1, <2>1 DEF Overflow, Shown, Single
    <2>3. Destroyed => Destroyed'
      BY <1>1, <2>1 DEF Destroyed, Shown, Single
    <2>4. Info => Info'
      BY <1>1, <2>1 DEF Info, Shown, Single
    <2>5. Still => Still'
      BY <1>1, <2>1 DEF Still
    <2> QED BY <2>2, <2>3, <2>4, <2>5
  <1> QED BY <1>1, <1>2, <1>3

\* What is sent comes last.
LEMMA SentLast ==
  ASSUME Typed, NEW e, Send(e)
  PROVE  \/ events' = events
         \/ /\ queue = "open" /\ events' = Append(events, e) /\ Len(events') = Len(events) + 1
            /\ events'[Len(events) + 1] = e /\ Len(events) \in Nat
            /\ \A i \in 1..Len(events) : events'[i] = events[i]
  <1>1. events \in Seq({"event", "vblank", "unmapped"})
    BY DEF Typed, Lv2Typed, Queued
  <1>2. CASE queue = "open" /\ Len(events) < QueueDepth
    <2>1. events' = Append(events, e)
      BY <1>2 DEF Send
    <2> QED BY <1>1, <1>2, <2>1
  <1>3. CASE ~(queue = "open" /\ Len(events) < QueueDepth)
    BY <1>3 DEF Send
  <1> QED BY <1>2, <1>3

\* The queues of the audio get events of the audio only.
LEMMA AudioBeside ==
  ASSUME Typed, Device \/ Mix
  PROVE  /\ NotifyQueue /\ Still => NotifyQueue'
         /\ NotifyQueueEx => NotifyQueueEx'
  <1>1. /\ UNCHANGED <<thread, queue, test, pos, failed, console, notified>>
    BY Besides DEF services
  <1>2. ASSUME test \notin RsxTests, OnlyAudio PROVE OnlyAudio'
    <2>1. Send("event")
      BY <1>2 DEF Device, Mix, Expire
    <2> QED BY <1>2, <2>1, SentLast DEF OnlyAudio
  <1>3. NotifyQueueEx => NotifyQueueEx'
    BY <1>1, <1>2 DEF NotifyQueueEx, RsxTests, Shown, Lone, Single
  <1>4. ASSUME NotifyQueue, Still, test = "audio_set_notify_queue" PROVE NotifyQueue'
    <2>1. OnlyAudio'
      BY <1>2, <1>4 DEF NotifyQueue, RsxTests
    <2>2. pos[0] \in 6..7 => events' = events
      BY <1>4 DEF NotifyQueue, Still, Device, Mix, Expire, RsxTests
    <2> QED BY <1>1, <1>4, <2>1, <2>2 DEF NotifyQueue, Shown, Lone, Single
  <1>5. test # "audio_set_notify_queue" => NotifyQueue'
    BY <1>1 DEF NotifyQueue
  <1> QED BY <1>3, <1>4, <1>5

\* A blank comes after the event of the memory that is unmapped.
LEMMA UnmapBeside ==
  ASSUME Typed, UnmapEvents, Device \/ Mix PROVE UnmapEvents'
  <1> SUFFICES ASSUME test \in RsxTests PROVE UnmapEvents'
    BY Besides DEF UnmapEvents
  <1>1. UNCHANGED <<thread, queue, test, pos, ret, failed, console, notified, driver>>
    BY Besides DEF services
  <1>2. Send("vblank") /\ timer' = timer
    BY DEF UnmapEvents, Device, Mix, Expire, VBlank
  <1>3. UnmapAt' = UnmapAt /\ \A n : Shown(n)' <=> Shown(n)
    BY <1>1, UnmapPlaces DEF Shown
  <1>4. Held' <=> Held
    BY <1>1 DEF Held
  <1>5. Awaited'
    <2>1. Awaited
      BY DEF UnmapEvents
    <2>2. CASE events' = events
      BY <1>1, <1>3, <1>4, <2>1, <2>2 DEF Awaited
    <2>3. CASE /\ Len(events') = Len(events) + 1 /\ Len(events) \in Nat
               /\ events'[Len(events) + 1] = "vblank"
               /\ \A i \in 1..Len(events) : events'[i] = events[i]
      <3>1. ASSUME NEW i \in 1..Len(events'), events'[i] # "vblank"
            PROVE  i \in 1..Len(events) /\ events[i] = events'[i]
        BY <2>3, <3>1
      <3>2. \A i \in 1..Len(events') : events'[i] \in {"vblank", "unmapped"}
        BY <2>1, <3>1 DEF Awaited
      <3>3. ASSUME NEW i \in 1..Len(events'), events'[i] = "unmapped"
            PROVE  /\ pos[0] > UnmapAt /\ Shown(4) /\ ~Held
                   /\ \A j \in 1..Len(events') : events'[j] = "unmapped" => j = i
        BY <2>1, <3>1, <3>3 DEF Awaited
      <3> QED BY <1>1, <1>3, <1>4, <3>2, <3>3 DEF Awaited
    <2> QED BY <1>2, <2>2, <2>3, SentLast
  <1>6. UnmapLines' /\ MappedAt(pos[0])' /\ JoinAt' = JoinAt
    BY <1>1, <1>3, UnmapPlaces DEF UnmapEvents, UnmapLines, MappedAt
  <1> QED BY <1>1, <1>2, <1>3, <1>4, <1>5, <1>6 DEF UnmapEvents, Single

\* Every test has a console.
LEMMA ConsoleIs == ASSUME test \in Tests PROVE \E lines : lines \in Expected[test]
  <1>1. test \in DOMAIN Programs
    BY KernelTestsAssumption DEF KernelTestsAssumption
  <1>2. /\ Expected["timer_overflow"] # {} /\ Expected["timer_after_destruction"] # {}
        /\ Expected["timer_info"] # {} /\ Expected["lwmutex_117"] # {}
    BY DEF Expected
  <1>3. /\ Expected["lwcond_wait_timeout"] # {} /\ Expected["main_thread_joinability"] # {}
        /\ Expected["set_priority"] # {} /\ Expected["bind_queue"] # {}
    BY DEF Expected
  <1>4. /\ Expected["rsxunmapevent"] # {} /\ Expected["rsxunmapevent_sys_memory"] # {}
        /\ Expected["audio_set_notify_queue"] # {} /\ Expected["audio_set_notify_queue_ex"] # {}
    BY DEF Expected
  <1>5. /\ Expected["camera_update_start"] # {} /\ Expected["threads_amount"] # {}
        /\ Expected["rsx_initialization"] # {} /\ Expected["rsx_iounmap"] # {}
    BY DEF Expected
  <1>6. /\ Expected["rsx_base_address"] # {} /\ Expected["rsx_base_address_2"] # {}
        /\ Expected["rsx_set_reference"] # {} /\ Expected["ids_invalidations"] # {}
    BY DEF Expected
  <1>7. Expected[test] # {}
    BY <1>1, <1>2, <1>3, <1>4, <1>5, <1>6 DEF Programs
  <1> QED BY <1>7

\* A table by its fields.
LEMMA TableFields ==
  ASSUME NEW live, NEW last, NEW generation, NEW table,
         table = [live |-> live, last |-> last, generation |-> generation]
  PROVE  table.live = live /\ table.last = last /\ table.generation = generation
OBVIOUS

\* At first nothing is shown.
LEMMA NothingShown == ASSUME Init PROVE Shown(0)
  <1>1. test \in Tests /\ console = <<>> /\ ~failed
    BY DEF Init
  <1>2. PICK lines : lines \in Expected[test]
    BY <1>1, ConsoleIs
  <1>3. First(lines, 0) = <<>>
    BY DEF First
  <1> QED BY <1>1, <1>2, <1>3 DEF Shown, Text

\* What each test needs before it begins.
LEMMA Starts ==
  ASSUME Init
  PROVE  /\ Overflow /\ Destroyed /\ Info
         /\ Call117s /\ Waits /\ Joinability /\ Priorities /\ BindQueue
         /\ UnmapEvents /\ NotifyQueue /\ Still /\ NotifyQueueEx /\ Camera /\ Amounts
         /\ Initialization /\ BaseAddress /\ BaseAddress2 /\ Reference /\ Ids
  <1>1. /\ Shown(0) /\ pos = [t \in Threads |-> 1] /\ signal = 0 /\ saved = "OK"
        /\ ret = [t \in Threads |-> "OK"] /\ ~failed /\ console = <<>>
        /\ queue = IF test \in RsxTests THEN "open" ELSE "none"
    BY NothingShown DEF Init
  <1>2. \A t \in Threads : pos[t] = 1
    BY <1>1
  <1>3. Lone /\ Single /\ events = <<>> /\ timer.state = "none" /\ ~timer.connected /\ ~bound
        /\ \A m \in Mutexes : marks[m] = {}
    BY DEF Init, NoObjects, NoTimer, Lone, Single, Threads
  <1>4. notified = "none" /\ ~updating /\ driver = Given(FALSE, NoBlock, NoBlock, 0)
        /\ driver = NothingGiven
    BY DEF Init, NoServices, NothingGiven, Given
  <1>5. 0 \in Threads /\ 1 \in Threads /\ 2 \in Threads /\ 1 \in Mutexes /\ Events \in Nat
    BY KernelTestsAssumption DEF Threads, Mutexes, KernelTestsAssumption
  <1>6. Overflow /\ Destroyed
    BY <1>1, <1>2, <1>3, <1>5 DEF Overflow, Destroyed, Lone
  <1>7. Info
    BY <1>1, <1>2, <1>3, <1>5 DEF Info, InfoShown, RsxTests
  <1>8. Call117s
    BY <1>1, <1>2, <1>3, <1>5 DEF Call117s, CallShown, CallMarks, One, Lone
  <1>9. Waits /\ Joinability /\ Priorities
    BY <1>1, <1>2, <1>3, <1>5 DEF Waits, Joinability, Priorities, One, Single, Threads
  <1>10. BindQueue
    BY <1>1, <1>2, <1>3, <1>5 DEF BindQueue, BindShown, One, Lone, RsxTests
  <1>11. UnmapEvents
    BY <1>1, <1>2, <1>3, <1>4, <1>5 DEF UnmapEvents, Held, Awaited, Lone, UnmapLines,
       UnmapShown, UnmapAt, JoinAt, MappedAt
  <1>12. NotifyQueue /\ Still
    BY <1>1, <1>2, <1>3, <1>4, <1>5 DEF NotifyQueue, Still, NotifyShown, OnlyAudio, RsxTests
  <1>13. NotifyQueueEx
    BY <1>1, <1>2, <1>3, <1>4, <1>5 DEF NotifyQueueEx, One, OnlyAudio, RsxTests
  <1>14. Camera /\ Amounts
    BY <1>1, <1>2, <1>3, <1>4, <1>5 DEF Camera, Amounts, One
  <1>15. Initialization /\ BaseAddress /\ BaseAddress2 /\ Reference
    BY <1>1, <1>2, <1>3, <1>4, <1>5 DEF Initialization, BaseAddress, BaseAddress2, Reference,
       Before, MappedAt, InitShown, Base2Shown, ReferenceShown
  <1>16. Ids
    <2>1. Objects \in Nat \ {0} /\ Shown(One(pos[0] > 8 * Objects + 1))
      BY <1>1, <1>2, <1>5, Sizes DEF One
    <2>2. \A k \in Kinds : ids[k] = [live |-> {}, last |-> 0, generation |-> ids[k].generation]
      BY DEF Init, NoServices
    <2>3. Fewest(Slots) = 1
      BY Sizes, FewestIs
    <2>4. ASSUME NEW k \in Kinds
          PROVE  /\ ids[k].generation \in [Slots -> Nat]
                 /\ \A s \in Slots \ {1} : ids[k].generation[s] = FirstGeneration(k)
      <3>1. ids[k].generation = [s \in Slots |-> IF k # "memory" THEN 0
                                                 ELSE IF s = Fewest(Slots) THEN 1 % Generations
                                                 ELSE Generations - 1]
        BY DEF Init, NoServices
      <3>2. 1 % Generations \in Nat /\ Generations - 1 \in Nat
        BY Sizes
      <3> QED BY <2>3, <3>1, <3>2 DEF FirstGeneration
    <2>5. ids \in [Kinds -> Table]
      <3>1. ASSUME NEW k \in Kinds PROVE ids[k] \in Table
        <4>1. PICK g : g = ids[k].generation
          OBVIOUS
        <4>2. g \in [Slots -> Nat] /\ ids[k] = [live |-> {}, last |-> 0, generation |-> g]
          BY <2>2, <2>4, <4>1
        <4> QED BY <4>2 DEF Table
      <3>2. DOMAIN ids = Kinds /\ ids = [k \in Kinds |-> ids[k]]
        BY DEF Init, NoServices
      <3> QED BY <3>1, <3>2
    <2>6. ASSUME NEW k \in Kinds PROVE OfKind(k, Behind(k, pos[0]), ids[k], array[k])
      <3>1. Behind(k, 1) = 0
        <4>1. Offset(k) \in Nat
          BY <2>1 DEF Offset, Kinds
        <4> QED BY <2>1, <4>1 DEF Behind
      <3>2. ComesNext(k, 0, ids[k].generation)
        <4>1. ASSUME NEW n \in (0 + 1)..(0 + Turn(k))
              PROVE  ids[k].generation[SlotOf(k, n)] = GenerationOf(k, n)
          <5> DEFINE T == Turn(k)
          <5>1. T \in Nat \ {0} /\ n \in Nat \ {0} /\ n - 1 \in 0..(T - 1)
            <6>1. T \in Nat \ {0}
              BY Turns
            <6> QED BY <4>1, <6>1
          <5>2. (n - 1) \div T = 0
            <6> HIDE DEF T
            <6> QED BY <5>1
          <5>3. SlotOf(k, n) \in Slots \ {1}
            BY <5>1, SlotIn
          <5>4. FirstGeneration(k) + 0 = FirstGeneration(k)
                /\ FirstGeneration(k) % Generations = FirstGeneration(k)
            BY Sizes DEF FirstGeneration
          <5> QED BY <2>4, <5>2, <5>3, <5>4 DEF GenerationOf
        <4> QED BY <4>1 DEF ComesNext
      <3>3. ids[k].live = {} /\ ids[k].last = 0
        <4>1. PICK g : g = ids[k].generation
          OBVIOUS
        <4>2. ids[k] = [live |-> {}, last |-> 0, generation |-> g]
          BY <2>2, <4>1
        <4> QED BY <4>2, TableFields
      <3>4. \A i \in Nat : 2 * i + 1 # 0 /\ (i > 0 => 2 * i # 0 /\ ~(0 >= 2 * i))
        OBVIOUS
      <3>5. OfKind(k, 0, ids[k], array[k])
        BY <2>1, <3>2, <3>3, <3>4 DEF OfKind
      <3> QED BY <1>2, <1>5, <3>1, <3>5
    <2> QED BY <2>1, <2>5, <2>6 DEF Ids
  <1> QED BY <1>6, <1>7, <1>8, <1>9, <1>10, <1>11, <1>12, <1>13, <1>14, <1>15, <1>16

-----------------------------------------------------------------------------
(* The invariant of the consoles.                                           *)

\* What each test has shown and has, where main and its threads are.
CInv == /\ Overflow /\ Destroyed /\ Info
        /\ Call117s /\ Waits /\ Joinability /\ Priorities /\ BindQueue /\ UnmapEvents
        /\ NotifyQueue /\ Still /\ NotifyQueueEx /\ Camera /\ Amounts
        /\ Initialization /\ BaseAddress /\ BaseAddress2 /\ Reference /\ Ids

\* An instruction keeps it.
LEMMA RunKeepsShown ==
  ASSUME KInv, CInv, NEW t \in Threads, Runs(t) PROVE CInv'
  <1>1. Overflow' /\ Destroyed' /\ Info'
    BY OverflowKept, DestroyedKept, InfoKept DEF CInv
  <1>2. Call117s' /\ Waits' /\ Joinability' /\ Priorities' /\ BindQueue' /\ UnmapEvents'
    BY Call117sKept, WaitsKept, JoinabilityKept, PrioritiesKept, BindQueueKept, UnmapEventsKept
       DEF CInv
  <1>3. NotifyQueue' /\ Still' /\ NotifyQueueEx' /\ Camera' /\ Amounts'
    BY NotifyQueueKept, StillKept, NotifyQueueExKept, CameraKept, AmountsKept DEF CInv
  <1>4. Initialization' /\ BaseAddress' /\ BaseAddress2' /\ Reference' /\ Ids'
    BY InitializationKept, BaseAddressKept, BaseAddress2Kept, ReferenceKept, IdsKept DEF CInv
  <1> QED BY <1>1, <1>2, <1>3, <1>4 DEF CInv

\* A step that changes nothing keeps it.
LEMMA StutterKeepsShown ==
  ASSUME CInv, UNCHANGED vars PROVE CInv'
  <1>1. /\ UNCHANGED <<thread, queue, events, timer, marks, bound, mapped>>
        /\ UNCHANGED <<test, pos, ret, saved, signal, array, failed, console>>
        /\ UNCHANGED <<notified, updating, driver, ids>>
    BY DEF vars, lv2, services
  <1>2. Overflow' /\ Destroyed' /\ Info' /\ Call117s'
    BY <1>1 DEF CInv, Overflow, Destroyed, Info, Call117s, Shown, Single
  <1>3. Waits' /\ Joinability' /\ Priorities'
    BY <1>1 DEF CInv, Waits, Joinability, Priorities, Shown, Single
  <1>4. BindQueue' /\ UnmapEvents'
    <2>1. BindQueue'
      BY <1>1 DEF CInv, BindQueue, Shown, Single
    <2>2. UnmapAt' = UnmapAt /\ JoinAt' = JoinAt /\ (Held' <=> Held) /\ \A n : Shown(n)' <=> Shown(n)
      BY <1>1 DEF UnmapAt, JoinAt, Held, Shown
    <2>3. (Awaited' <=> Awaited) /\ (UnmapLines' <=> UnmapLines)
      BY <1>1, <2>2, UnmapPlaces DEF Awaited, UnmapLines
    <2>4. MappedAt(pos[0])' <=> MappedAt(pos[0])
      BY <1>1 DEF MappedAt
    <2>5. UnmapEvents'
      BY <1>1, <2>2, <2>3, <2>4 DEF CInv, UnmapEvents, Single
    <2> QED BY <2>1, <2>5
  <1>5. NotifyQueue' /\ Still' /\ NotifyQueueEx' /\ Camera' /\ Amounts'
    BY <1>1 DEF CInv, NotifyQueue, Still, NotifyQueueEx, Camera, Amounts, OnlyAudio, Shown, Lone,
       Single
  <1>6. Initialization' /\ BaseAddress' /\ BaseAddress2' /\ Reference'
    <2>1. Initialization'
      BY <1>1 DEF CInv, Initialization, Shown, Lone, Single
    <2>2. BaseAddress' /\ Reference'
      BY <1>1 DEF CInv, BaseAddress, Reference, Before, MappedAt, Shown, Lone, Single
    <2>3. BaseAddress2'
      BY <1>1 DEF CInv, BaseAddress2, Shown, Lone, Single
    <2> QED BY <2>1, <2>2, <2>3
  <1>7. Ids'
    BY <1>1 DEF CInv, Ids, Shown
  <1> QED BY <1>2, <1>3, <1>4, <1>5, <1>6, <1>7 DEF CInv

\* It is inductive beside KInv.
LEMMA NextKeepsShown == KInv /\ CInv /\ [Next]_vars => CInv'
  <1> SUFFICES ASSUME KInv, CInv, [Next]_vars PROVE CInv'
    OBVIOUS
  <1>1. CASE Device \/ Mix
    BY <1>1, OthersBeside, TimersBeside, AudioBeside, UnmapBeside DEF CInv, KInv
  <1> QED BY <1>1, RunKeepsShown, StutterKeepsShown DEF Next

\* Both hold in every state.
LEMMA CInvHolds == Spec => [](KInv /\ CInv)
  <1>1. Init => KInv /\ CInv
    BY InitIs, Starts DEF CInv
  <1>2. KInv /\ CInv /\ [Next]_vars => (KInv /\ CInv)'
    BY NextKeeps, NextKeepsShown
  <1> QED BY <1>1, <1>2, PTL DEF Spec

-----------------------------------------------------------------------------
(* What is shown begins what is expected, and is all of it when main returns. *)

\* Of m lines main and its threads have shown some, and all when main has returned.
ShownOf(m) == \E n \in 0..m : Shown(n) /\ (Returned => n = m)

\* Then the console is as expected, if as many lines are.
LEMMA ShownMatches ==
  ASSUME NEW m \in Nat, ShownOf(m), \A lines \in Expected[test] : Len(lines) = m
  PROVE  /\ ~failed
         /\ \E lines \in Expected[test] : Begins(lines) /\ (Returned => Len(console) = Len(lines))
  <1>1. PICK n \in 0..m : Shown(n) /\ (Returned => n = m)
    BY DEF ShownOf
  <1>2. PICK lines \in Expected[test] : console = [i \in 1..n |-> lines[i]]
    BY <1>1 DEF Shown, Text, First
  <1>3. Len(console) = n /\ \A i \in 1..n : console[i] = lines[i]
    BY <1>2
  <1>4. Begins(lines) /\ (Returned => Len(console) = Len(lines))
    BY <1>1, <1>3 DEF Begins
  <1> QED BY <1>1, <1>2, <1>4 DEF Shown

\* As many lines are expected of the tests of the kernel's objects.
LEMMA KernelLines ==
  /\ \A lines \in Expected["timer_overflow"] : Len(lines) = 0
  /\ \A lines \in Expected["timer_after_destruction"] : Len(lines) = 0
  /\ \A lines \in Expected["timer_info"] : Len(lines) = 6
  /\ \A lines \in Expected["lwmutex_117"] : Len(lines) = 7
  /\ \A lines \in Expected["lwcond_wait_timeout"] : Len(lines) = 3
  /\ \A lines \in Expected["main_thread_joinability"] : Len(lines) = 2
  /\ \A lines \in Expected["set_priority"] : Len(lines) = 1
  /\ \A lines \in Expected["bind_queue"] : Len(lines) = 13
  <1>1. /\ \A lines \in Expected["timer_overflow"] : Len(lines) = 0
        /\ \A lines \in Expected["timer_after_destruction"] : Len(lines) = 0
    BY DEF Expected
  <1>2. \A lines \in Expected["timer_info"] : Len(lines) = 6
    BY DEF Expected
  <1>3. \A lines \in Expected["lwmutex_117"] : Len(lines) = 7
    BY DEF Expected
  <1>4. /\ \A lines \in Expected["lwcond_wait_timeout"] : Len(lines) = 3
        /\ \A lines \in Expected["main_thread_joinability"] : Len(lines) = 2
        /\ \A lines \in Expected["set_priority"] : Len(lines) = 1
    BY DEF Expected
  <1>5. \A lines \in Expected["bind_queue"] : Len(lines) = 13
    BY DEF Expected
  <1> QED BY <1>1, <1>2, <1>3, <1>4, <1>5

\* And as many of the tests of the audio, the camera, the RSX and the identifiers.
LEMMA ServiceLines ==
  /\ \A lines \in Expected["audio_set_notify_queue"] : Len(lines) = 8
  /\ \A lines \in Expected["audio_set_notify_queue_ex"] : Len(lines) = 4
  /\ \A lines \in Expected["camera_update_start"] : Len(lines) = 5
  /\ \A lines \in Expected["threads_amount"] : Len(lines) = 1
  /\ \A lines \in Expected["rsx_initialization"] : Len(lines) = 5
  /\ \A lines \in Expected["rsx_iounmap"] : Len(lines) = 8
  /\ \A lines \in Expected["rsx_base_address"] : Len(lines) = 5
  /\ \A lines \in Expected["rsx_base_address_2"] : Len(lines) = 3
  /\ \A lines \in Expected["rsx_set_reference"] : Len(lines) = 3
  /\ \A lines \in Expected["ids_invalidations"] : Len(lines) = 1
  <1>1. /\ \A lines \in Expected["audio_set_notify_queue"] : Len(lines) = 8
        /\ \A lines \in Expected["audio_set_notify_queue_ex"] : Len(lines) = 4
    BY DEF Expected
  <1>2. /\ \A lines \in Expected["camera_update_start"] : Len(lines) = 5
        /\ \A lines \in Expected["threads_amount"] : Len(lines) = 1
    BY DEF Expected
  <1>3. /\ \A lines \in Expected["rsx_initialization"] : Len(lines) = 5
        /\ \A lines \in Expected["rsx_iounmap"] : Len(lines) = 8
        /\ \A lines \in Expected["rsx_base_address"] : Len(lines) = 5
    BY DEF Expected
  <1>4. /\ \A lines \in Expected["rsx_base_address_2"] : Len(lines) = 3
        /\ \A lines \in Expected["rsx_set_reference"] : Len(lines) = 3
        /\ \A lines \in Expected["ids_invalidations"] : Len(lines) = 1
    BY DEF Expected
  <1> QED BY <1>1, <1>2, <1>3, <1>4

\* Main is in its program or has returned.
LEMMA MainWithin ==
  ASSUME KInv
  PROVE  /\ pos[0] \in 1..(Len(Program(0)) + 1) /\ (Returned <=> pos[0] = Len(Program(0)) + 1)
         /\ Len(Program(0)) \in Nat
  <1>1. Len(Program(0)) \in Nat /\ pos[0] \in 1..(Len(Program(0)) + 1)
    BY RunningOk DEF KInv, Typed, Positions, MainOk
  <1> QED BY <1>1 DEF Returned

\* So it is, as long as its program is.
LEMMA MainIn ==
  ASSUME KInv, NEW l \in Nat, Len(Program(0)) = l
  PROVE  pos[0] \in 1..(l + 1) /\ (Returned <=> pos[0] = l + 1)
BY MainWithin

\* Where there is no other thread, or it is over, nothing is lost.
LEMMA NoneLost ==
  ASSUME Returned => \A t \in Threads \ {0} : thread[t] # "runs" PROVE NothingLost
BY DEF NothingLost

\* Main never returns from the tests that wait for a thread or a timer.
LEMMA TimersMatch ==
  ASSUME KInv, CInv
  PROVE  /\ test \in {"timer_overflow", "timer_after_destruction"} => ShownOf(0) /\ NothingLost
         /\ test = "timer_info" => ShownOf(6) /\ NothingLost
  <1>1. ASSUME test = "timer_overflow" PROVE ShownOf(0) /\ NothingLost
    <2>1. ~Returned /\ Shown(0)
      BY <1>1, MainWithin, OverflowPrograms DEF CInv, Overflow
    <2> QED BY <2>1 DEF ShownOf, NothingLost
  <1>2. ASSUME test = "timer_after_destruction" PROVE ShownOf(0) /\ NothingLost
    <2>1. ~Returned /\ Shown(0)
      BY <1>2, MainWithin, DestroyedPrograms DEF CInv, Destroyed
    <2> QED BY <2>1 DEF ShownOf, NothingLost
  <1>3. ASSUME test = "timer_info" PROVE ShownOf(6) /\ NothingLost
    <2>1. /\ Single /\ Shown(InfoShown[pos[0]])
          /\ pos[0] > 20 => thread[1] = "ended"
      BY <1>3 DEF CInv, Info
    <2>2. pos[0] \in 1..22 /\ (Returned <=> pos[0] = 22)
      <3>1. Len(Program(0)) = 21 /\ 21 \in Nat /\ 21 + 1 = 22
        BY <1>3, InfoMain
      <3> QED BY <3>1, MainIn
    <2>3. (\A p \in 1..22 : InfoShown[p] \in 0..6) /\ InfoShown[22] = 6
      BY DEF InfoShown
    <2>4. Returned => \A t \in Threads \ {0} : thread[t] # "runs"
      BY <2>1, <2>2 DEF Single, Threads
    <2> QED BY <2>1, <2>2, <2>3, <2>4, NoneLost DEF ShownOf
  <1> QED BY <1>1, <1>2, <1>3

\* A thread has no line to print where it exits, or where it never prints.
LEMMA SilentAt ==
  ASSUME KInv, NEW t \in Threads \ {0},
         \/ pos[t] = Len(Program(t)) /\ Program(t)[pos[t]].op = "exit"
         \/ \A n \in 1..Len(Program(t)) :
              Program(t)[n].op \notin {"print", "print_ret", "print_event"}
  PROVE  Prints(t) = {}
  <1>1. pos[t] \in 1..Len(Program(t)) /\ Len(Program(t)) \in Nat
    BY RunningOk DEF KInv, Typed, Positions, ThreadOk
  <1> QED BY <1>1 DEF Prints

\* The tests of mutexes and of threads.
LEMMA ThreadsMatch ==
  ASSUME KInv, CInv
  PROVE  /\ test = "lwmutex_117" => ShownOf(7) /\ NothingLost
         /\ test = "lwcond_wait_timeout" => ShownOf(3) /\ NothingLost
         /\ test = "main_thread_joinability" => ShownOf(2) /\ NothingLost
         /\ test = "set_priority" => ShownOf(1) /\ NothingLost
  <1>1. ASSUME test = "lwmutex_117" PROVE ShownOf(7) /\ NothingLost
    <2>1. /\ Single /\ Shown(CallShown[pos[0]] + One(pos[1] > 2))
          /\ thread[1] = "ended" => pos[1] = 3
          /\ pos[0] > 17 => thread[1] = "ended"
      BY <1>1 DEF CInv, Call117s
    <2>2. pos[0] \in 1..18 /\ (Returned <=> pos[0] = 18)
      <3>1. Len(Program(0)) = 17 /\ 17 \in Nat /\ 17 + 1 = 18
        BY <1>1, Call117Programs
      <3> QED BY <3>1, MainIn
    <2>3. (\A p \in 1..18 : CallShown[p] \in 0..6) /\ CallShown[18] = 6
      BY DEF CallShown
    <2>4. Returned => pos[1] = 3 /\ \A t \in Threads \ {0} : thread[t] # "runs"
      BY <2>1, <2>2 DEF Single, Threads
    <2>5. CallShown[pos[0]] + One(pos[1] > 2) \in 0..7
      BY <2>2, <2>3 DEF One
    <2>6. Returned => CallShown[pos[0]] + One(pos[1] > 2) = 7
      BY <2>2, <2>3, <2>4 DEF One
    <2> QED BY <2>1, <2>4, <2>5, <2>6, NoneLost DEF ShownOf
  <1>2. ASSUME test = "lwcond_wait_timeout" PROVE ShownOf(3) /\ NothingLost
    <2> DEFINE n == One(pos[1] > 5) + One(pos[2] > 5) + One(pos[0] > 6)
    <2>1. Shown(n) /\ \A t \in 1..2 : pos[0] > 5 => pos[t] = 7
      BY <1>2 DEF CInv, Waits
    <2>2. pos[0] \in 1..7 /\ (Returned <=> pos[0] = 7)
      <3>1. Len(Program(0)) = 6 /\ 6 \in Nat /\ 6 + 1 = 7
        BY <1>2, WaitsMain
      <3> QED BY <3>1, MainIn
    <2>3. n \in 0..3 /\ (Returned => n = 3)
      BY <2>1, <2>2 DEF One
    <2>4. thread[3] = "none" /\ thread[4] = "none"
      BY <1>2 DEF KInv, Counted
    <2>5. ASSUME Returned, NEW t \in 1..2 PROVE Prints(t) = {}
      <3>1. t \in Threads \ {0} /\ pos[t] = 7
        BY <2>1, <2>2, <2>5 DEF Threads
      <3>2. Len(Program(t)) = 7 /\ Program(t)[7].op = "exit"
        BY <1>2, <3>1, WaitsThread
      <3> QED BY <3>1, <3>2, SilentAt
    <2>6. NothingLost
      <3>1. Threads \ {0} = 1..4
        BY DEF Threads
      <3> QED BY <2>4, <2>5, <3>1 DEF NothingLost
    <2> HIDE DEF n
    <2> QED BY <2>1, <2>3, <2>6 DEF ShownOf
  <1>3. ASSUME test = "main_thread_joinability" PROVE ShownOf(2) /\ NothingLost
    <2> DEFINE n == One(pos[1] > 2) + One(pos[0] > 3)
    <2>1. /\ Single /\ Shown(n)
          /\ pos[0] > 2 => pos[1] > 3
      BY <1>3 DEF CInv, Joinability
    <2>2. pos[0] \in 1..4 /\ (Returned <=> pos[0] = 4)
      <3>1. Len(Program(0)) = 3 /\ 3 \in Nat /\ 3 + 1 = 4
        BY <1>3, JoinabilityPrograms
      <3> QED BY <3>1, MainIn
    <2>3. 1 \in Threads \ {0}
      BY DEF Threads
    <2>4. /\ pos[1] \in 1..4 /\ Len(Program(1)) = 4 /\ Program(1)[4].op = "exit"
      BY <1>3, <2>3, JoinabilityThread DEF KInv, Positions
    <2>5. n \in 0..2 /\ (Returned => n = 2)
      BY <2>1, <2>4, <2>2 DEF One
    <2>6. Returned => Prints(1) = {}
      <3>1. Returned => pos[1] = 4
        BY <2>1, <2>4, <2>2
      <3> QED BY <2>4, <2>3, <3>1, SilentAt
    <2>7. NothingLost
      BY <2>1, <2>6 DEF NothingLost, Single, Threads
    <2> HIDE DEF n
    <2> QED BY <2>1, <2>5, <2>7 DEF ShownOf
  <1>4. ASSUME test = "set_priority" PROVE ShownOf(1) /\ NothingLost
    <2>1. Shown(One(pos[0] > 11)) /\ pos[0] \in 1..12 /\ (Returned <=> pos[0] = 12)
      <3>1. Len(Program(0)) = 11 /\ 11 \in Nat /\ 11 + 1 = 12
        BY <1>4, PriorityPrograms
      <3> QED BY <1>4, <3>1, MainIn DEF CInv, Priorities
    <2>2. ASSUME NEW t \in Threads \ {0} PROVE Prints(t) = {}
      BY <1>4, PriorityThread, SilentAt
    <2>3. NothingLost
      BY <2>2 DEF NothingLost
    <2>4. One(pos[0] > 11) \in 0..1 /\ (Returned => One(pos[0] > 11) = 1)
      BY <2>1 DEF One
    <2> QED BY <2>1, <2>3, <2>4 DEF ShownOf
  <1> QED BY <1>1, <1>2, <1>3, <1>4

\* The tests of the queue of the SPU, and of those that are told of events.
LEMMA QueuesMatch ==
  ASSUME KInv, CInv
  PROVE  /\ test = "bind_queue" => ShownOf(13) /\ NothingLost
         /\ test = "audio_set_notify_queue" => ShownOf(8) /\ NothingLost
         /\ test = "audio_set_notify_queue_ex" => ShownOf(4) /\ NothingLost
  <1>1. ASSUME test = "bind_queue" PROVE ShownOf(13) /\ NothingLost
    <2>1. /\ Single /\ Shown(BindShown[pos[0]] + One(pos[1] > 2))
          /\ thread[1] = "ended" => pos[1] = 3
          /\ pos[0] > 23 => thread[1] = "ended"
      BY <1>1 DEF CInv, BindQueue
    <2>2. pos[0] \in 1..26 /\ (Returned <=> pos[0] = 26)
      <3>1. Len(Program(0)) = 25 /\ 25 \in Nat /\ 25 + 1 = 26
        BY <1>1, BindPrograms
      <3> QED BY <3>1, MainIn
    <2>3. (\A p \in 1..26 : BindShown[p] \in 0..12) /\ BindShown[26] = 12
      BY DEF BindShown
    <2>4. Returned => pos[1] = 3 /\ \A t \in Threads \ {0} : thread[t] # "runs"
      BY <2>1, <2>2 DEF Single, Threads
    <2>5. BindShown[pos[0]] + One(pos[1] > 2) \in 0..13
      BY <2>2, <2>3 DEF One
    <2>6. Returned => BindShown[pos[0]] + One(pos[1] > 2) = 13
      BY <2>2, <2>3, <2>4 DEF One
    <2> QED BY <2>1, <2>4, <2>5, <2>6, NoneLost DEF ShownOf
  <1>2. ASSUME test = "audio_set_notify_queue" PROVE ShownOf(8) /\ NothingLost
    <2>1. /\ Lone /\ Shown(NotifyShown[pos[0]])
      BY <1>2 DEF CInv, NotifyQueue
    <2>2. pos[0] \in 1..21 /\ (Returned <=> pos[0] = 21)
      <3>1. Len(Program(0)) = 20 /\ 20 \in Nat /\ 20 + 1 = 21
        BY <1>2, NotifyPrograms
      <3> QED BY <3>1, MainIn
    <2>3. (\A p \in 1..21 : NotifyShown[p] \in 0..8) /\ NotifyShown[21] = 8
      BY DEF NotifyShown
    <2> QED BY <2>1, <2>2, <2>3, NoneLost DEF ShownOf, Lone, Single, Threads
  <1>3. ASSUME test = "audio_set_notify_queue_ex" PROVE ShownOf(4) /\ NothingLost
    <2> DEFINE n == One(pos[0] > 2) + One(pos[0] > Events + 3) + One(pos[0] > Events + 4)
                    + One(pos[0] > Events + 5)
    <2>1. /\ Lone /\ Shown(n) /\ Events \in Nat
          /\ pos[0] \in 1..(Events + 6) /\ (Returned <=> pos[0] = Events + 6)
      BY <1>3, MainWithin, NotifyExPrograms DEF CInv, NotifyQueueEx
    <2>2. n \in 0..4 /\ (Returned => n = 4)
      BY <2>1 DEF One
    <2> HIDE DEF n
    <2> QED BY <2>1, <2>2, NoneLost DEF ShownOf, Lone, Single, Threads
  <1> QED BY <1>1, <1>2, <1>3

\* The tests without a thread beside main.
LEMMA AloneMatch ==
  ASSUME KInv, CInv
  PROVE  /\ test = "camera_update_start" => ShownOf(5) /\ NothingLost
         /\ test = "threads_amount" => ShownOf(1) /\ NothingLost
         /\ test = "rsx_initialization" => ShownOf(5) /\ NothingLost
         /\ test = "rsx_iounmap" => ShownOf(8) /\ NothingLost
         /\ test = "rsx_base_address" => ShownOf(5) /\ NothingLost
         /\ test = "rsx_base_address_2" => ShownOf(3) /\ NothingLost
         /\ test = "rsx_set_reference" => ShownOf(3) /\ NothingLost
  <1>1. Lone => NothingLost
    BY DEF NothingLost, Lone, Single, Threads
  <1>2. ASSUME test = "camera_update_start" PROVE ShownOf(5) /\ NothingLost
    <2>1. Lone /\ Shown(pos[0] - 1)
      BY <1>2 DEF CInv, Camera
    <2>2. pos[0] \in 1..6 /\ (Returned <=> pos[0] = 6)
      <3>1. Len(Program(0)) = 5 /\ 5 \in Nat /\ 5 + 1 = 6
        BY <1>2, CameraPrograms
      <3> QED BY <3>1, MainIn
    <2> QED BY <1>1, <2>1, <2>2 DEF ShownOf
  <1>3. ASSUME test = "threads_amount" PROVE ShownOf(1) /\ NothingLost
    <2>1. Shown(One(pos[0] > 6))
      BY <1>3 DEF CInv, Amounts
    <2>2. pos[0] \in 1..10 /\ (Returned <=> pos[0] = 10)
      <3>1. Len(Program(0)) = 9 /\ 9 \in Nat /\ 9 + 1 = 10
        BY <1>3, AmountsPrograms
      <3> QED BY <3>1, MainIn
    <2>3. NothingLost
      BY <1>3 DEF KInv, Amount, NothingLost
    <2>4. One(pos[0] > 6) \in 0..1 /\ (Returned => One(pos[0] > 6) = 1)
      BY <2>2 DEF One
    <2> QED BY <2>1, <2>3, <2>4 DEF ShownOf
  <1>4. ASSUME test = "rsx_initialization" PROVE ShownOf(5) /\ NothingLost
    <2>1. Lone /\ Shown(InitShown[pos[0]])
      BY <1>4 DEF CInv, Initialization
    <2>2. pos[0] \in 1..12 /\ (Returned <=> pos[0] = 12)
      <3>1. Len(Program(0)) = 11 /\ 11 \in Nat /\ 11 + 1 = 12
        BY <1>4, InitializationPrograms
      <3> QED BY <3>1, MainIn
    <2>3. (\A p \in 1..12 : InitShown[p] \in 0..5) /\ InitShown[12] = 5
      BY DEF InitShown
    <2> QED BY <1>1, <2>1, <2>2, <2>3 DEF ShownOf
  <1>5. ASSUME test = "rsx_iounmap" PROVE ShownOf(8) /\ NothingLost
    <2>1. Lone /\ Shown(pos[0] - 1)
      BY <1>5 DEF CInv, BaseAddress
    <2>2. pos[0] \in 1..9 /\ (Returned <=> pos[0] = 9)
      <3>1. Len(Program(0)) = 8 /\ 8 \in Nat /\ 8 + 1 = 9
        BY <1>5, BasePrograms
      <3> QED BY <3>1, MainIn
    <2> QED BY <1>1, <2>1, <2>2 DEF ShownOf
  <1>6. ASSUME test = "rsx_base_address" PROVE ShownOf(5) /\ NothingLost
    <2>1. Lone /\ Shown(pos[0] - 1)
      BY <1>6 DEF CInv, BaseAddress
    <2>2. pos[0] \in 1..6 /\ (Returned <=> pos[0] = 6)
      <3>1. Len(Program(0)) = 5 /\ 5 \in Nat /\ 5 + 1 = 6
        BY <1>6, BasePrograms
      <3> QED BY <3>1, MainIn
    <2> QED BY <1>1, <2>1, <2>2 DEF ShownOf
  <1>7. ASSUME test = "rsx_base_address_2" PROVE ShownOf(3) /\ NothingLost
    <2>1. Lone /\ Shown(Base2Shown[pos[0]])
      BY <1>7 DEF CInv, BaseAddress2
    <2>2. pos[0] \in 1..13 /\ (Returned <=> pos[0] = 13)
      <3>1. Len(Program(0)) = 12 /\ 12 \in Nat /\ 12 + 1 = 13
        BY <1>7, Base2Programs
      <3> QED BY <3>1, MainIn
    <2>3. (\A p \in 1..13 : Base2Shown[p] \in 0..3) /\ Base2Shown[13] = 3
      BY DEF Base2Shown
    <2> QED BY <1>1, <2>1, <2>2, <2>3 DEF ShownOf
  <1>8. ASSUME test = "rsx_set_reference" PROVE ShownOf(3) /\ NothingLost
    <2>1. Lone /\ Shown(ReferenceShown[pos[0]])
      BY <1>8 DEF CInv, Reference
    <2>2. pos[0] \in 1..5 /\ (Returned <=> pos[0] = 5)
      <3>1. Len(Program(0)) = 4 /\ 4 \in Nat /\ 4 + 1 = 5
        BY <1>8, ReferencePrograms
      <3> QED BY <3>1, MainIn
    <2>3. (\A p \in 1..5 : ReferenceShown[p] \in 0..3) /\ ReferenceShown[5] = 3
      BY DEF ReferenceShown
    <2> QED BY <1>1, <2>1, <2>2, <2>3 DEF ShownOf
  <1> QED BY <1>2, <1>3, <1>4, <1>5, <1>6, <1>7, <1>8

\* The tests of what is unmapped: main waits for a thread that never exits.
LEMMA UnmapMatches ==
  ASSUME KInv, CInv, test \in RsxTests
  PROVE  /\ ~failed /\ NothingLost /\ ~Returned
         /\ \E lines \in Expected[test] : Begins(lines)
  <1>1. /\ ~failed /\ pos[0] <= JoinAt /\ \E n \in 0..5 : Shown(n)
    <2>1. ~failed /\ pos[0] <= JoinAt /\ UnmapLines
      BY DEF CInv, UnmapEvents
    <2>2. UnmapShown(pos[0]) \in 0..5
      <3>1. Len(Program(0)) = JoinAt + 1 /\ JoinAt \in Nat
        BY UnmapPrograms DEF JoinAt
      <3>2. PICK l \in Nat : l = JoinAt + 1 /\ Len(Program(0)) = l
        BY <3>1
      <3>3. pos[0] \in 1..(l + 1)
        BY <3>2, MainIn
      <3>4. pos[0] \in 1..JoinAt
        BY <2>1, <3>1, <3>3
      <3> QED BY <3>4 DEF UnmapShown, UnmapAt, JoinAt
    <2> QED BY <2>1, <2>2 DEF UnmapLines
  <1>2. ~Returned
    <2>1. Len(Program(0)) = JoinAt + 1 /\ JoinAt \in Nat
      BY UnmapPrograms DEF JoinAt
    <2> QED BY <1>1, <2>1, MainIn
  <1>3. PICK n \in 0..5, lines \in Expected[test] : console = [i \in 1..n |-> lines[i]]
    BY <1>1 DEF Shown, Text, First
  <1>4. Len(lines) = 5
    BY <1>3 DEF Expected, RsxTests
  <1>5. Begins(lines)
    <2>1. Len(console) = n /\ \A i \in 1..n : console[i] = lines[i]
      BY <1>3
    <2> QED BY <1>3, <1>4, <2>1 DEF Begins
  <1> QED BY <1>1, <1>2, <1>3, <1>5 DEF NothingLost

\* The identifiers are those that come in turn, and every thread exits at once.
LEMMA IdsMatch ==
  ASSUME KInv, CInv, test = "ids_invalidations"
  PROVE  ShownOf(1) /\ NothingLost /\ (Returned => Identifiers)
  <1>1. /\ Shown(One(pos[0] > 8 * Objects + 1)) /\ Objects \in Nat \ {0}
        /\ \A k \in Kinds : OfKind(k, Behind(k, pos[0]), ids[k], array[k])
    BY KernelTestsAssumption DEF KernelTestsAssumption, CInv, Ids
  <1>2. pos[0] \in 1..(8 * Objects + 2) /\ (Returned <=> pos[0] = 8 * Objects + 2)
    <2>1. Len(Program(0)) = 8 * Objects + 1
      BY IdsPrograms
    <2>2. PICK l \in Nat : l = 8 * Objects + 1
      BY <1>1
    <2>3. pos[0] \in 1..(l + 1) /\ (Returned <=> pos[0] = l + 1)
      BY <2>1, <2>2, MainIn
    <2> QED BY <1>1, <2>2, <2>3
  <1>3. ShownOf(1)
    <2>1. One(pos[0] > 8 * Objects + 1) \in 0..1 /\ (Returned => One(pos[0] > 8 * Objects + 1) = 1)
      BY <1>1, <1>2 DEF One
    <2> QED BY <1>1, <2>1 DEF ShownOf
  <1>4. NothingLost
    <2>1. ASSUME NEW t \in Threads \ {0} PROVE Prints(t) = {}
      <3>1. Program(t) = <<Exit>>
        BY DEF Program, Programs, ids_invalidations, Alone
      <3>2. Len(Program(t)) = 1 /\ Program(t)[1].op = "exit"
        BY <3>1 DEF Exit, I, On
      <3> QED BY <3>2, SilentAt
    <2> QED BY <2>1 DEF NothingLost
  <1>5. ASSUME Returned, NEW i \in 1..(Objects - 1), NEW k \in Kinds
        PROVE  array[k][i] = IdOf(k, i)
    <2>1. Behind(k, pos[0]) >= 2 * i
      BY <1>1, <1>2, <1>5 DEF Behind, Offset, Kinds
    <2> QED BY <1>1, <2>1 DEF OfKind
  <1>6. Returned => Identifiers
    BY <1>5 DEF Identifiers, IdOf, SlotOf, GenerationOf, Turn, FirstGeneration
  <1> QED BY <1>3, <1>4, <1>6

\* The console and the identifiers are as the expected.txt show them in every state.
THEOREM ConsolesMatch == Spec => []AsOnTheConsole
  <1>1. KInv /\ CInv => AsOnTheConsole
    <2> SUFFICES ASSUME KInv, CInv PROVE AsOnTheConsole
      OBVIOUS
    <2>1. test \in DOMAIN Programs
      BY KernelTestsAssumption DEF KernelTestsAssumption, KInv, Typed
    <2>2. CASE test \in RsxTests
      <3>1. test # "ids_invalidations"
        BY <2>2 DEF RsxTests
      <3> QED BY <2>2, <3>1, UnmapMatches DEF AsOnTheConsole
    <2>3. CASE test \notin RsxTests
      <3>1. \E m \in Nat : /\ ShownOf(m) /\ NothingLost
                           /\ \A lines \in Expected[test] : Len(lines) = m
        <4> DEFINE Matches(m) == /\ ShownOf(m) /\ NothingLost
                                 /\ \A lines \in Expected[test] : Len(lines) = m
        <4>1. CASE test \in {"timer_overflow", "timer_after_destruction", "timer_info"}
          <5>1. test # "timer_info" => Matches(0)
            BY <4>1, TimersMatch, KernelLines
          <5>2. test = "timer_info" => Matches(6)
            BY TimersMatch, KernelLines
          <5> QED BY <5>1, <5>2
        <4>2. CASE test \in {"lwmutex_117", "lwcond_wait_timeout", "main_thread_joinability",
                             "set_priority"}
          <5>1. test = "lwmutex_117" => Matches(7)
            BY ThreadsMatch, KernelLines
          <5>2. test = "lwcond_wait_timeout" => Matches(3)
            BY ThreadsMatch, KernelLines
          <5>3. test = "main_thread_joinability" => Matches(2)
            BY ThreadsMatch, KernelLines
          <5>4. test = "set_priority" => Matches(1)
            BY ThreadsMatch, KernelLines
          <5> HIDE DEF Matches
          <5>5. \E m \in Nat : Matches(m)
            BY <4>2, <5>1, <5>2, <5>3, <5>4
          <5> QED BY <5>5 DEF Matches
        <4>3. CASE test \in {"bind_queue", "audio_set_notify_queue", "audio_set_notify_queue_ex"}
          <5>1. test = "bind_queue" => Matches(13)
            BY QueuesMatch, KernelLines
          <5>2. test = "audio_set_notify_queue" => Matches(8)
            BY QueuesMatch, ServiceLines
          <5>3. test = "audio_set_notify_queue_ex" => Matches(4)
            BY QueuesMatch, ServiceLines
          <5> HIDE DEF Matches
          <5>4. \E m \in Nat : Matches(m)
            BY <4>3, <5>1, <5>2, <5>3
          <5> QED BY <5>4 DEF Matches
        <4>4. CASE test \in {"camera_update_start", "threads_amount", "rsx_initialization",
                             "rsx_iounmap"}
          BY <4>4, AloneMatch, ServiceLines
        <4>5. CASE test \in {"rsx_base_address", "rsx_base_address_2", "rsx_set_reference",
                             "ids_invalidations"}
          BY <4>5, AloneMatch, IdsMatch, ServiceLines
        <4> QED BY <2>1, <2>3, <4>1, <4>2, <4>3, <4>4, <4>5 DEF Programs, RsxTests
      <3> QED BY <3>1, ShownMatches, IdsMatch DEF AsOnTheConsole
    <2> QED BY <2>2, <2>3
  <1> QED BY <1>1, CInvHolds, PTL
=============================================================================
